---------------------------- MODULE Spec2Model ----------------------------
(***************************************************************************)
(* The conversation layer of the feedback widget: the useConversation      *)
(* hook of src/src/Widget.jsx (message sequence, isLoading,                *)
(* conversationMode), the ConversationService singleton of                 *)
(* src/src/conversationService.js (session token, the five remote          *)
(* operations, the keyword fallback) and the part of the Widget component  *)
(* that invokes them (tabs, input, Send, Clear Chat, Back, the auto-start  *)
(* effect).                                                                *)
(*                                                                         *)
(* A text is a sequence of one-character strings, so that trim(),          *)
(* toLowerCase() and includes() are computed on it as JavaScript computes  *)
(* them.  Every async function is split at its await: the part before it   *)
(* runs in the step that invokes the operation, the part after it in the   *)
(* step in which the network call settles.  The log "calls" holds one      *)
(* record per invocation: its captured arguments, the request it issued    *)
(* and its position, plus bookkeeping of what it appended.                 *)
(*                                                                         *)
(* Specifications: Spec (the four operations of the hook in any order),    *)
(* ClockSpec (Spec with a running clock), ObservedSpec (Spec with the      *)
(* outcome of each settled fetch on record), UISpec (the operations as the *)
(* Widget invokes them), UIFairSpec (UISpec in which the fetch of a         *)
(* startConversation settles), ServiceSpec (the methods of the service     *)
(* called directly), PageSpec (the entry points of src/src/main.jsx) and   *)
(* ContextSpec (the context that send and start put in their payloads).    *)
(***************************************************************************)
EXTENDS Integers, Sequences, FiniteSets, TLC

(***************************************************************************)
(* Bounds of the model.                                                    *)
(***************************************************************************)
\* invocations of the four operations in one behaviour
MaxCalls == 3
\* last value of the millisecond clock
MaxNow == 1

(***************************************************************************)
(* The literal texts of the source.                                        *)
(***************************************************************************)
\* "I'm sorry, I couldn't process your request."
COULD_NOT_PROCESS ==
    <<"I", "'", "m", " ", "s", "o", "r", "r", "y", ",", " ", "I", " ", "c",
       "o", "u", "l", "d", "n", "'", "t", " ", "p", "r", "o", "c", "e", "s",
       "s", " ", "y", "o", "u", "r", " ", "r", "e", "q", "u", "e", "s", "t",
       ".">>

\* "I'm here to help! I can assist you with technical issues, product questions, or general support. What would you like to know?"
FALLBACK_HELP ==
    <<"I", "'", "m", " ", "h", "e", "r", "e", " ", "t", "o", " ", "h", "e",
       "l", "p", "!", " ", "I", " ", "c", "a", "n", " ", "a", "s", "s", "i",
       "s", "t", " ", "y", "o", "u", " ", "w", "i", "t", "h", " ", "t", "e",
       "c", "h", "n", "i", "c", "a", "l", " ", "i", "s", "s", "u", "e", "s",
       ",", " ", "p", "r", "o", "d", "u", "c", "t", " ", "q", "u", "e", "s",
       "t", "i", "o", "n", "s", ",", " ", "o", "r", " ", "g", "e", "n", "e",
       "r", "a", "l", " ", "s", "u", "p", "p", "o", "r", "t", ".", " ", "W",
       "h", "a", "t", " ", "w", "o", "u", "l", "d", " ", "y", "o", "u", " ",
       "l", "i", "k", "e", " ", "t", "o", " ", "k", "n", "o", "w", "?">>

\* "I understand you're having payment issues. Let me help you troubleshoot. Can you tell me more about what's happening?"
FALLBACK_PAYMENT ==
    <<"I", " ", "u", "n", "d", "e", "r", "s", "t", "a", "n", "d", " ", "y",
       "o", "u", "'", "r", "e", " ", "h", "a", "v", "i", "n", "g", " ", "p",
       "a", "y", "m", "e", "n", "t", " ", "i", "s", "s", "u", "e", "s", ".",
       " ", "L", "e", "t", " ", "m", "e", " ", "h", "e", "l", "p", " ", "y",
       "o", "u", " ", "t", "r", "o", "u", "b", "l", "e", "s", "h", "o", "o",
       "t", ".", " ", "C", "a", "n", " ", "y", "o", "u", " ", "t", "e", "l",
       "l", " ", "m", "e", " ", "m", "o", "r", "e", " ", "a", "b", "o", "u",
       "t", " ", "w", "h", "a", "t", "'", "s", " ", "h", "a", "p", "p", "e",
       "n", "i", "n", "g", "?">>

\* "I see you're experiencing an issue. I've detected some technical problems on this page. Let me help you resolve them."
FALLBACK_ERROR ==
    <<"I", " ", "s", "e", "e", " ", "y", "o", "u", "'", "r", "e", " ", "e",
       "x", "p", "e", "r", "i", "e", "n", "c", "i", "n", "g", " ", "a", "n",
       " ", "i", "s", "s", "u", "e", ".", " ", "I", "'", "v", "e", " ", "d",
       "e", "t", "e", "c", "t", "e", "d", " ", "s", "o", "m", "e", " ", "t",
       "e", "c", "h", "n", "i", "c", "a", "l", " ", "p", "r", "o", "b", "l",
       "e", "m", "s", " ", "o", "n", " ", "t", "h", "i", "s", " ", "p", "a",
       "g", "e", ".", " ", "L", "e", "t", " ", "m", "e", " ", "h", "e", "l",
       "p", " ", "y", "o", "u", " ", "r", "e", "s", "o", "l", "v", "e", " ",
       "t", "h", "e", "m", ".">>

\* "Thank you for your feature request! I'll make sure this gets to our development team. Can you provide more details?"
FALLBACK_FEATURE ==
    <<"T", "h", "a", "n", "k", " ", "y", "o", "u", " ", "f", "o", "r", " ",
       "y", "o", "u", "r", " ", "f", "e", "a", "t", "u", "r", "e", " ", "r",
       "e", "q", "u", "e", "s", "t", "!", " ", "I", "'", "l", "l", " ", "m",
       "a", "k", "e", " ", "s", "u", "r", "e", " ", "t", "h", "i", "s", " ",
       "g", "e", "t", "s", " ", "t", "o", " ", "o", "u", "r", " ", "d", "e",
       "v", "e", "l", "o", "p", "m", "e", "n", "t", " ", "t", "e", "a", "m",
       ".", " ", "C", "a", "n", " ", "y", "o", "u", " ", "p", "r", "o", "v",
       "i", "d", "e", " ", "m", "o", "r", "e", " ", "d", "e", "t", "a", "i",
       "l", "s", "?">>

\* "I'm sorry to hear you're experiencing a bug. Let me help you report this issue. Can you describe what happened?"
FALLBACK_BUG ==
    <<"I", "'", "m", " ", "s", "o", "r", "r", "y", " ", "t", "o", " ", "h",
       "e", "a", "r", " ", "y", "o", "u", "'", "r", "e", " ", "e", "x", "p",
       "e", "r", "i", "e", "n", "c", "i", "n", "g", " ", "a", " ", "b", "u",
       "g", ".", " ", "L", "e", "t", " ", "m", "e", " ", "h", "e", "l", "p",
       " ", "y", "o", "u", " ", "r", "e", "p", "o", "r", "t", " ", "t", "h",
       "i", "s", " ", "i", "s", "s", "u", "e", ".", " ", "C", "a", "n", " ",
       "y", "o", "u", " ", "d", "e", "s", "c", "r", "i", "b", "e", " ", "w",
       "h", "a", "t", " ", "h", "a", "p", "p", "e", "n", "e", "d", "?">>

\* "Thank you for your message. I'm here to help improve your experience. Is there anything specific you'd like to discuss?"
FALLBACK_GENERIC ==
    <<"T", "h", "a", "n", "k", " ", "y", "o", "u", " ", "f", "o", "r", " ",
       "y", "o", "u", "r", " ", "m", "e", "s", "s", "a", "g", "e", ".", " ",
       "I", "'", "m", " ", "h", "e", "r", "e", " ", "t", "o", " ", "h", "e",
       "l", "p", " ", "i", "m", "p", "r", "o", "v", "e", " ", "y", "o", "u",
       "r", " ", "e", "x", "p", "e", "r", "i", "e", "n", "c", "e", ".", " ",
       "I", "s", " ", "t", "h", "e", "r", "e", " ", "a", "n", "y", "t", "h",
       "i", "n", "g", " ", "s", "p", "e", "c", "i", "f", "i", "c", " ", "y",
       "o", "u", "'", "d", " ", "l", "i", "k", "e", " ", "t", "o", " ", "d",
       "i", "s", "c", "u", "s", "s", "?">>

\* "Hello! I'm your AI assistant. How can I help you today?"
DEFAULT_GREETING ==
    <<"H", "e", "l", "l", "o", "!", " ", "I", "'", "m", " ", "y", "o", "u",
       "r", " ", "A", "I", " ", "a", "s", "s", "i", "s", "t", "a", "n", "t",
       ".", " ", "H", "o", "w", " ", "c", "a", "n", " ", "I", " ", "h", "e",
       "l", "p", " ", "y", "o", "u", " ", "t", "o", "d", "a", "y", "?">>

\* "I'm sorry, I'm having trouble connecting right now. Please try again in a moment."
APOLOGY ==
    <<"I", "'", "m", " ", "s", "o", "r", "r", "y", ",", " ", "I", "'", "m",
       " ", "h", "a", "v", "i", "n", "g", " ", "t", "r", "o", "u", "b", "l",
       "e", " ", "c", "o", "n", "n", "e", "c", "t", "i", "n", "g", " ", "r",
       "i", "g", "h", "t", " ", "n", "o", "w", ".", " ", "P", "l", "e", "a",
       "s", "e", " ", "t", "r", "y", " ", "a", "g", "a", "i", "n", " ", "i",
       "n", " ", "a", " ", "m", "o", "m", "e", "n", "t", ".">>

(***************************************************************************)
(* String primitives of JavaScript used by the source.                     *)
(***************************************************************************)
\* white space and line terminators removed by String.prototype.trim
WhiteSpace == {" ", "\t", "\n", "\r"}

UpperCase ==
    <<"A", "B", "C", "D", "E", "F", "G", "H", "I", "J", "K", "L", "M",
      "N", "O", "P", "Q", "R", "S", "T", "U", "V", "W", "X", "Y", "Z">>

LowerCase ==
    <<"a", "b", "c", "d", "e", "f", "g", "h", "i", "j", "k", "l", "m",
      "n", "o", "p", "q", "r", "s", "t", "u", "v", "w", "x", "y", "z">>

RECURSIVE trimStart(_)
trimStart(s) ==
    IF s # <<>> /\ Head(s) \in WhiteSpace THEN trimStart(Tail(s)) ELSE s

RECURSIVE trimEnd(_)
trimEnd(s) ==
    IF s # <<>> /\ s[Len(s)] \in WhiteSpace
    THEN trimEnd(SubSeq(s, 1, Len(s) - 1))
    ELSE s

\* String.prototype.trim
trim(s) == trimEnd(trimStart(s))

lowerChar(c) ==
    IF \E i \in DOMAIN UpperCase : UpperCase[i] = c
    THEN LowerCase[CHOOSE i \in DOMAIN UpperCase : UpperCase[i] = c]
    ELSE c

\* String.prototype.toLowerCase
toLowerCase(s) == [i \in DOMAIN s |-> lowerChar(s[i])]

\* String.prototype.includes
includes(s, k) ==
    \E i \in 0..(Len(s) - Len(k)) : SubSeq(s, i + 1, i + Len(k)) = k

(***************************************************************************)
(* The network: what one fetch() can come to.                              *)
(***************************************************************************)




\* Response.ok: the status is in the range 200-299
ok(response) == response.status \in 200..299

\* The outcome of one fetch() and of the response.json() that may follow it:
\* rejects: fetch itself rejects (network failure); status: the HTTP status;
\* json: "invalid" when response.json() rejects, "null" when the body is the
\* JSON value null, "object" when it is an object with the fields of data.
Outcome(rejects, status, json, data) ==
    [rejects |-> rejects, status |-> status, json |-> json, data |-> data]

NoFields == [f \in {} |-> <<>>]

NetworkFailure == Outcome(TRUE, 0, "invalid", NoFields)

HttpFailure == Outcome(FALSE, 500, "object", NoFields)

InvalidJson == Outcome(FALSE, 200, "invalid", NoFields)

NullJson == Outcome(FALSE, 200, "null", NoFields)

Success(data) == Outcome(FALSE, 200, "object", data)

\* texts a backend puts in its bodies
BackendTexts == {<<>>, <<"o", "k">>}

ChatBodies ==
    {NoFields}
        \cup {[response |-> r] : r \in BackendTexts}
        \cup {[message |-> m] : m \in BackendTexts \ {<<>>}}
        \cup {[response |-> <<>>, message |-> <<"o", "k">>]}
        \cup {[response |-> <<"o", "k">>, message |-> <<"n", "o">>]}

StartBodies == {NoFields} \cup {[welcome_message |-> w] : w \in BackendTexts}

Failures == {NetworkFailure, HttpFailure, InvalidJson, NullJson}

ChatOutcomes == Failures \cup {Success(d) : d \in ChatBodies}

StartOutcomes == Failures \cup {Success(d) : d \in StartBodies}

\* clearConversation and endConversation await fetch() alone: neither the
\* status nor the body is read
PlainOutcomes == {NetworkFailure, HttpFailure, Success(NoFields)}

\* data.<field>, truthy: the field is there and is not the empty string
truthy(data, field) == field \in DOMAIN data /\ data[field] # <<>>

(***************************************************************************)
(* ConversationService (src/src/conversationService.js).                   *)
(***************************************************************************)
\* what an async method hands to its awaiting caller
Resolved(value, fallback) ==
    [rejected |-> FALSE, value |-> value, fallback |-> fallback]

Rejected == [rejected |-> TRUE, value |-> <<>>, fallback |-> FALSE]

\* the try block of the methods that read the body throws on these
throws(o) == o.rejects \/ ~ok(o) \/ o.json # "object"

\* the request a method issues: every payload carries this.sessionId
Request(path, session) == [path |-> path, session_id |-> session]

\* getFallbackResponse matching the keywords against the message as typed
getFallbackResponse_CaseSensitive(message) ==
    IF includes(message, <<"h", "e", "l", "p">>)
       \/ includes(message, <<"s", "u", "p", "p", "o", "r", "t">>)
    THEN FALLBACK_HELP
    ELSE IF includes(message, <<"p", "a", "y", "m", "e", "n", "t">>)
            \/ includes(message, <<"b", "i", "l", "l", "i", "n", "g">>)
    THEN FALLBACK_PAYMENT
    ELSE IF includes(message, <<"e", "r", "r", "o", "r">>)
            \/ includes(message, <<"p", "r", "o", "b", "l", "e", "m">>)
    THEN FALLBACK_ERROR
    ELSE IF includes(message, <<"f", "e", "a", "t", "u", "r", "e">>)
            \/ includes(message, <<"r", "e", "q", "u", "e", "s", "t">>)
    THEN FALLBACK_FEATURE
    ELSE IF includes(message, <<"b", "u", "g">>)
            \/ includes(message, <<"i", "s", "s", "u", "e">>)
    THEN FALLBACK_BUG
    ELSE FALLBACK_GENERIC

getFallbackResponse(message) ==
    LET lowerMessage == toLowerCase(message)
    IN  IF includes(lowerMessage, <<"h", "e", "l", "p">>)
           \/ includes(lowerMessage, <<"s", "u", "p", "p", "o", "r", "t">>)
        THEN FALLBACK_HELP
        ELSE IF includes(lowerMessage, <<"p", "a", "y", "m", "e", "n", "t">>)
                \/ includes(lowerMessage, <<"b", "i", "l", "l", "i", "n", "g">>)
        THEN FALLBACK_PAYMENT
        ELSE IF includes(lowerMessage, <<"e", "r", "r", "o", "r">>)
                \/ includes(lowerMessage, <<"p", "r", "o", "b", "l", "e", "m">>)
        THEN FALLBACK_ERROR
        ELSE IF includes(lowerMessage, <<"f", "e", "a", "t", "u", "r", "e">>)
                \/ includes(lowerMessage, <<"r", "e", "q", "u", "e", "s", "t">>)
        THEN FALLBACK_FEATURE
        ELSE IF includes(lowerMessage, <<"b", "u", "g">>)
                \/ includes(lowerMessage, <<"i", "s", "s", "u", "e">>)
        THEN FALLBACK_BUG
        ELSE FALLBACK_GENERIC

\* ConversationService.sendMessage with a catch that logs and rethrows
serviceSendMessage_Rethrows(message, o) ==
    IF throws(o)
    THEN Rejected
    ELSE IF truthy(o.data, "response") THEN Resolved(o.data.response, FALSE)
    ELSE IF truthy(o.data, "message") THEN Resolved(o.data.message, FALSE)
    ELSE Resolved(COULD_NOT_PROCESS, FALSE)

\* ConversationService.sendMessage with a catch that returns the fixed reply
serviceSendMessage_NoFallback(message, o) ==
    IF throws(o)
    THEN Resolved(COULD_NOT_PROCESS, FALSE)
    ELSE IF truthy(o.data, "response") THEN Resolved(o.data.response, FALSE)
    ELSE IF truthy(o.data, "message") THEN Resolved(o.data.message, FALSE)
    ELSE Resolved(COULD_NOT_PROCESS, FALSE)

\* ConversationService.sendMessage returning data.message || data.response
serviceSendMessage_PrefersMessage(message, o) ==
    IF throws(o)
    THEN Resolved(getFallbackResponse(message), TRUE)
    ELSE IF truthy(o.data, "message") THEN Resolved(o.data.message, FALSE)
    ELSE IF truthy(o.data, "response") THEN Resolved(o.data.response, FALSE)
    ELSE Resolved(COULD_NOT_PROCESS, FALSE)

\* ConversationService.sendMessage that takes a field for a reply as soon as
\* the body has it, empty or not
serviceSendMessage_TakesEmptyFields(message, o) ==
    IF throws(o)
    THEN Resolved(getFallbackResponse(message), TRUE)
    ELSE IF "response" \in DOMAIN o.data
    THEN Resolved(o.data.response, FALSE)
    ELSE IF "message" \in DOMAIN o.data THEN Resolved(o.data.message, FALSE)
    ELSE Resolved(COULD_NOT_PROCESS, FALSE)

\* ConversationService.sendMessage, given what its fetch comes to
serviceSendMessage(message, o) ==
    IF throws(o)
    THEN Resolved(getFallbackResponse(message), TRUE)
    ELSE IF truthy(o.data, "response") THEN Resolved(o.data.response, FALSE)
    ELSE IF truthy(o.data, "message") THEN Resolved(o.data.message, FALSE)
    ELSE Resolved(COULD_NOT_PROCESS, FALSE)

\* ConversationService.startConversation with a catch that logs and rethrows
serviceStartConversation_Rethrows(o) ==
    IF throws(o)
    THEN Rejected
    ELSE IF truthy(o.data, "welcome_message")
    THEN Resolved(o.data.welcome_message, FALSE)
    ELSE Resolved(DEFAULT_GREETING, FALSE)

\* ConversationService.startConversation
serviceStartConversation(o) ==
    IF throws(o)
    THEN Resolved(DEFAULT_GREETING, FALSE)
    ELSE IF truthy(o.data, "welcome_message")
    THEN Resolved(o.data.welcome_message, FALSE)
    ELSE Resolved(DEFAULT_GREETING, FALSE)

\* ConversationService.endConversation: a rejected fetch is caught and logged
serviceEndConversation(o) == Resolved(<<>>, FALSE)

\* ConversationService.clearConversation: a rejected fetch is caught and logged
serviceClearConversation(o) == Resolved(<<>>, FALSE)

\* a message of a conversation as the backend keeps it
HistoryMessages ==
    <<[role |-> "user", content |-> <<"h", "i">>],
      [role |-> "assistant", content |-> <<"o", "k">>]>>

HistoryBodies ==
    {NoFields, [messages |-> <<>>], [messages |-> HistoryMessages]}

HistoryOutcomes == Failures \cup {Success(d) : d \in HistoryBodies}

\* ConversationService.getConversationHistory with a catch that logs and
\* rethrows
serviceGetConversationHistory_Rethrows(o) ==
    IF throws(o)
    THEN Rejected
    ELSE IF "messages" \in DOMAIN o.data
    THEN Resolved(o.data.messages, FALSE)
    ELSE Resolved(<<>>, FALSE)

\* ConversationService.getConversationHistory: data.messages || [], and []
\* from the catch
serviceGetConversationHistory(o) ==
    IF throws(o)
    THEN Resolved(<<>>, FALSE)
    ELSE IF "messages" \in DOMAIN o.data
    THEN Resolved(o.data.messages, FALSE)
    ELSE Resolved(<<>>, FALSE)

(***************************************************************************)
(* State.                                                                  *)
(***************************************************************************)
VARIABLES
    messages,          \* useConversation: the message sequence
    isLoading,         \* useConversation: the loading flag
    conversationMode,  \* useConversation: the conversation-mode flag
    currentView,       \* Widget: "feedback" or "conversation"
    sessionId,         \* conversationService.sessionId
    now,               \* Date.now()
    calls,             \* one record per invocation of an operation
    fetched,           \* what the fetch that settled last came to
    service,           \* the methods of conversationService called directly
    page,              \* the host document and the roots main.jsx created
    widget             \* Widget: context and errors, and the window's location

vars ==
    <<messages, isLoading, conversationMode, currentView, sessionId, now,
      calls, fetched, service, page, widget>>

\* tokens generateSessionId can return: session_<millis>_<random suffix>
SessionIds == {"session_0_a", "session_0_b"}

\* what a caller passes to sendMessage as content
Contents ==
    {<<>>, <<" ">>, <<" ", "B", "i", "l", "l", "i", "n", "g">>}

\* the state of the hook and of the component, as one value
State ==
    [messages |-> messages, isLoading |-> isLoading,
     conversationMode |-> conversationMode, currentView |-> currentView,
     calls |-> calls]

Apply(s) ==
    /\ messages' = s.messages
    /\ isLoading' = s.isLoading
    /\ conversationMode' = s.conversationMode
    /\ currentView' = s.currentView
    /\ calls' = s.calls

\* a message object; call is the invocation that built it
Message(id, type, content, t, call) ==
    [id |-> id, type |-> type, content |-> content, timestamp |-> t,
     call |-> call]

\* An invocation: kind, the content it captured, its position (pc: "returned"
\* early, at its "await", "done"), the requests it issued, back (the Back
\* handler goes on after it); and, once it is done: failed (its fetch
\* rejected, or its try block threw on the status or the body), rejected (the
\* service method rejected), fallback (getFallbackResponse was called), reply
\* (the text of the assistant message it built); wiped: the sequence was
\* replaced while it was at its await.
NewCall(kind, content, pc, requests, back) ==
    [kind |-> kind, content |-> content, pc |-> pc, requests |-> requests,
     back |-> back, failed |-> FALSE, rejected |-> FALSE,
     fallback |-> FALSE, reply |-> <<>>, wiped |-> FALSE]

\* the invocations suspended at their await, of the given kinds
Awaiting(cs, kinds) ==
    {i \in DOMAIN cs : cs[i].pc = "await" /\ cs[i].kind \in kinds}

\* the pending sendMessage invocations lose their user message when the
\* sequence is replaced
Wipe(cs, i) ==
    [k \in DOMAIN cs |->
        IF k # i /\ cs[k].kind = "sendMessage" /\ cs[k].pc = "await"
        THEN [cs[k] EXCEPT !.wiped = TRUE]
        ELSE cs[k]]

(***************************************************************************)
(* useConversation (src/src/Widget.jsx).                                   *)
(***************************************************************************)
\* sendMessage with the guard !content in place of !content.trim()
sendMessage_GuardWithoutTrim(s, content, t, session) ==
    IF content = <<>>
    THEN [s EXCEPT !.calls =
            Append(@, NewCall("sendMessage", content, "returned", <<>>,
                              FALSE))]
    ELSE LET userMessage == Message(t, "user", content, t, Len(s.calls) + 1)
         IN  [s EXCEPT
                !.messages = Append(@, userMessage),
                !.isLoading = TRUE,
                !.calls =
                    Append(@, NewCall("sendMessage", content, "await",
                                      <<Request("/chat", session)>>,
                                      FALSE))]

\* sendMessage with the user message not appended before the await
sendMessage_NoUserAppend(s, content, t, session) ==
    IF trim(content) = <<>>
    THEN [s EXCEPT !.calls =
            Append(@, NewCall("sendMessage", content, "returned", <<>>,
                              FALSE))]
    ELSE [s EXCEPT
            !.isLoading = TRUE,
            !.calls =
                Append(@, NewCall("sendMessage", content, "await",
                                  <<Request("/chat", session)>>, FALSE))]

\* sendMessage that returns at once while another request is in flight
sendMessage_DropsWhileLoading(s, content, t, session) ==
    IF trim(content) = <<>> \/ s.isLoading
    THEN [s EXCEPT !.calls =
            Append(@, NewCall("sendMessage", content, "returned", <<>>,
                              FALSE))]
    ELSE LET userMessage == Message(t, "user", content, t, Len(s.calls) + 1)
         IN  [s EXCEPT
                !.messages = Append(@, userMessage),
                !.isLoading = TRUE,
                !.calls =
                    Append(@, NewCall("sendMessage", content, "await",
                                      <<Request("/chat", session)>>,
                                      FALSE))]

\* sendMessage up to its await
sendMessage(s, content, t, session) ==
    IF trim(content) = <<>>
    THEN [s EXCEPT !.calls =
            Append(@, NewCall("sendMessage", content, "returned", <<>>,
                              FALSE))]
    ELSE LET userMessage == Message(t, "user", content, t, Len(s.calls) + 1)
         IN  [s EXCEPT
                !.messages = Append(@, userMessage),
                !.isLoading = TRUE,
                !.calls =
                    Append(@, NewCall("sendMessage", content, "await",
                                      <<Request("/chat", session)>>,
                                      FALSE))]

\* sendMessage from its await on, with a catch that only logs
sendMessageResume_SilentCatch(s, i, o, t) ==
    LET response == serviceSendMessage(s.calls[i].content, o)
        aiMessage == Message(t + 1, "ai", response.value, t, i)
        done ==
            [s.calls[i] EXCEPT !.pc = "done", !.failed = throws(o),
                               !.rejected = response.rejected,
                               !.fallback = response.fallback]
    IN  IF throws(o)
        THEN [s EXCEPT !.isLoading = FALSE, !.calls[i] = done]
        ELSE [s EXCEPT
                !.messages = Append(@, aiMessage),
                !.isLoading = FALSE,
                !.calls[i] = [done EXCEPT !.reply = aiMessage.content]]

\* sendMessage from its await on, with setIsLoading(false) reached only
\* on the path of a reply of the backend
sendMessageResume_NoFinally(s, i, o, t) ==
    LET response == serviceSendMessage(s.calls[i].content, o)
        aiMessage ==
            Message(t + 1, "ai",
                    IF response.rejected THEN APOLOGY ELSE response.value,
                    t, i)
    IN  [s EXCEPT
            !.messages = Append(@, aiMessage),
            !.isLoading = IF response.fallback THEN @ ELSE FALSE,
            !.calls[i] =
                [@ EXCEPT !.pc = "done", !.failed = throws(o),
                          !.rejected = response.rejected,
                          !.fallback = response.fallback,
                          !.reply = aiMessage.content]]

\* sendMessage from its await on, with [aiMessage, ...prev]
sendMessageResume_Prepends(s, i, o, t) ==
    LET response == serviceSendMessage(s.calls[i].content, o)
        aiMessage ==
            Message(t + 1, "ai",
                    IF response.rejected THEN APOLOGY ELSE response.value,
                    t, i)
    IN  [s EXCEPT
            !.messages = <<aiMessage>> \o @,
            !.isLoading = FALSE,
            !.calls[i] =
                [@ EXCEPT !.pc = "done", !.failed = throws(o),
                          !.rejected = response.rejected,
                          !.fallback = response.fallback,
                          !.reply = aiMessage.content]]

\* sendMessage from its await on, keeping two messages of the history
sendMessageResume_TrimsHistory(s, i, o, t) ==
    LET response == serviceSendMessage(s.calls[i].content, o)
        aiMessage ==
            Message(t + 1, "ai",
                    IF response.rejected THEN APOLOGY ELSE response.value,
                    t, i)
    IN  [s EXCEPT
            !.messages =
                Append(IF Len(@) >= 2 THEN Tail(@) ELSE @, aiMessage),
            !.isLoading = FALSE,
            !.calls[i] =
                [@ EXCEPT !.pc = "done", !.failed = throws(o),
                          !.rejected = response.rejected,
                          !.fallback = response.fallback,
                          !.reply = aiMessage.content]]

\* sendMessage from its await on: the try, the catch and the finally
sendMessageResume(s, i, o, t) ==
    LET response == serviceSendMessage(s.calls[i].content, o)
        aiMessage ==
            Message(t + 1, "ai",
                    IF response.rejected THEN APOLOGY ELSE response.value,
                    t, i)
    IN  [s EXCEPT
            !.messages = Append(@, aiMessage),
            !.isLoading = FALSE,
            !.calls[i] =
                [@ EXCEPT !.pc = "done", !.failed = throws(o),
                          !.rejected = response.rejected,
                          !.fallback = response.fallback,
                          !.reply = aiMessage.content]]

\* startConversation up to its await
startConversation(s, session) ==
    [s EXCEPT
        !.isLoading = TRUE,
        !.calls =
            Append(@, NewCall("startConversation", <<>>, "await",
                              <<Request("/conversation/start", session)>>,
                              FALSE))]

\* startConversation from its await on, putting the greeting after the
\* messages the sequence holds
startConversationResume_Appends(s, i, o, t) ==
    LET welcomeMessage == serviceStartConversation(o)
        aiMessage == Message(t, "ai", welcomeMessage.value, t, i)
    IN  [s EXCEPT
            !.messages = Append(@, aiMessage),
            !.conversationMode = TRUE,
            !.isLoading = FALSE,
            !.calls[i] =
                [@ EXCEPT !.pc = "done", !.failed = throws(o),
                          !.rejected = welcomeMessage.rejected,
                          !.reply = aiMessage.content]]

\* startConversation from its await on
startConversationResume(s, i, o, t) ==
    LET welcomeMessage == serviceStartConversation(o)
        aiMessage == Message(t, "ai", welcomeMessage.value, t, i)
        done ==
            [s.calls[i] EXCEPT !.pc = "done", !.failed = throws(o),
                               !.rejected = welcomeMessage.rejected]
    IN  IF welcomeMessage.rejected
        THEN [s EXCEPT !.isLoading = FALSE, !.calls[i] = done]
        ELSE [s EXCEPT
                !.messages = <<aiMessage>>,
                !.conversationMode = TRUE,
                !.isLoading = FALSE,
                !.calls =
                    [Wipe(s.calls, i) EXCEPT
                        ![i] = [done EXCEPT !.reply = aiMessage.content]]]

\* clearConversation that empties the sequence before its remote call
clearConversation_EmptiesFirst(s, session) ==
    [s EXCEPT
        !.messages = <<>>,
        !.calls =
            Append(@, NewCall("clearConversation", <<>>, "await",
                              <<Request("/conversation/clear", session)>>,
                              FALSE))]

\* clearConversation up to its await
clearConversation(s, session) ==
    [s EXCEPT
        !.calls =
            Append(@, NewCall("clearConversation", <<>>, "await",
                              <<Request("/conversation/clear", session)>>,
                              FALSE))]

\* clearConversation from its await on, emptying the sequence only when
\* the fetch did not reject
clearConversationResume_KeepsOnFailure(s, i, o) ==
    [s EXCEPT
        !.messages = IF o.rejects THEN @ ELSE <<>>,
        !.calls =
            [(IF o.rejects THEN s.calls ELSE Wipe(s.calls, i)) EXCEPT
                ![i] = [@ EXCEPT !.pc = "done", !.failed = o.rejects]]]

\* clearConversation from its await on, aborting the sends in flight
clearConversationResume_Aborts(s, i, o) ==
    [s EXCEPT
        !.messages = <<>>,
        !.isLoading = FALSE,
        !.calls =
            [k \in DOMAIN s.calls |->
                IF k = i \/ (s.calls[k].kind = "sendMessage"
                             /\ s.calls[k].pc = "await")
                THEN [s.calls[k] EXCEPT !.pc = "done",
                                        !.failed = k = i /\ o.rejects]
                ELSE s.calls[k]]]

\* clearConversation from its await on, leaving conversation mode as well
clearConversationResume_ResetsMode(s, i, o) ==
    [s EXCEPT
        !.messages = <<>>,
        !.conversationMode = FALSE,
        !.calls =
            [Wipe(s.calls, i) EXCEPT
                ![i] = [@ EXCEPT !.pc = "done", !.failed = o.rejects]]]

\* clearConversation from its await on: both branches empty the sequence
clearConversationResume(s, i, o) ==
    LET cleared == serviceClearConversation(o)
    IN  [s EXCEPT
            !.messages = IF cleared.rejected THEN <<>> ELSE <<>>,
            !.calls =
                [Wipe(s.calls, i) EXCEPT
                    ![i] = [@ EXCEPT !.pc = "done", !.failed = o.rejects,
                                     !.rejected = cleared.rejected]]]

\* endConversation up to its await; back: invoked by the Back button, whose
\* handler goes on after it
endConversation(s, session, back) ==
    [s EXCEPT
        !.calls =
            Append(@, NewCall("endConversation", <<>>, "await",
                              <<Request("/conversation/end", session)>>,
                              back))]

\* endConversation from its await on, resetting the hook once the remote
\* conversation has ended
endConversationResume_Resets(s, i, o) ==
    [s EXCEPT
        !.messages = IF o.rejects THEN @ ELSE <<>>,
        !.conversationMode = IF o.rejects THEN @ ELSE FALSE,
        !.currentView = IF s.calls[i].back THEN "feedback" ELSE @,
        !.calls[i] = [@ EXCEPT !.pc = "done", !.failed = o.rejects]]

\* endConversation from its await on, and the rest of the Back handler
endConversationResume(s, i, o) ==
    LET ended == serviceEndConversation(o)
    IN  [s EXCEPT
            !.currentView = IF s.calls[i].back THEN "feedback" ELSE @,
            !.calls[i] = [@ EXCEPT !.pc = "done", !.failed = o.rejects,
                                   !.rejected = ended.rejected]]

\* the constructor's this.sessionId = this.generateSessionId(): some token
generateSessionId == CHOOSE id \in SessionIds : TRUE

\* no fetch has settled yet
NoFetch == [call |-> 0, outcome |-> NetworkFailure]

\* service: the requests the methods called directly have issued, and the
\* call that returned last (method, its argument, what its fetch came to,
\* what it returned)
ServiceCall(method, message, o, result) ==
    [method |-> method, message |-> message, outcome |-> o,
     result |-> result]

NoService ==
    [call |-> ServiceCall("none", <<>>, NetworkFailure, Resolved(<<>>, FALSE)),
     requests |-> <<>>]

\* page: elements (the ids the document holds, each with its style.display),
\* roots (one per ReactDOM.createRoot, with the container it was given and
\* the errorTriggered prop of the Widget rendered in it), renders (one per
\* call of renderMyWidget: its argument and whether it threw), requests
\* (those the widgets of the roots have issued)
Page(elements, roots, renders, requests) ==
    [elements |-> elements, roots |-> roots, renders |-> renders,
     requests |-> requests, handled |-> "none"]

NoElements == [id \in {} |-> ""]

NoPage == Page(NoElements, <<>>, <<>>, <<>>)

(***************************************************************************)
(* The context of a request: what the Widget detects at mount, what the    *)
(* hook makes of it for a call, and what the service puts in the payload.  *)
(***************************************************************************)
\* new Date(t).toISOString(), the text of the instant t
toISOString(t) == [iso |-> t]

\* navigator.userAgent
USER_AGENT == "Mozilla/5.0"

\* window.location and document.title, as the code reads them
Window(href, pathname, title) ==
    [href |-> href, pathname |-> pathname, title |-> title]

Windows ==
    { Window("https://shop.example/checkout",
             <<"/", "c", "h", "e", "c", "k", "o", "u", "t">>, "Checkout"),
      Window("https://shop.example/help",
             <<"/", "h", "e", "l", "p">>, "Help"),
      Window("https://shop.example/", <<"/">>, "Shop") }

\* the page context of a window without a query string, detected at t
detectPageContext(window, t) ==
    [url |-> window.href,
     title |-> window.title,
     pathname |-> window.pathname,
     searchParams |-> NoFields,
     userAgent |-> USER_AGENT,
     timestamp |-> toISOString(t),
     pageType |->
        IF \/ includes(window.pathname, <<"/", "p", "a", "y", "m", "e", "n", "t">>)
           \/ includes(window.pathname, <<"/", "c", "h", "e", "c", "k", "o", "u", "t">>)
        THEN "payment"
        ELSE IF \/ includes(window.pathname, <<"/", "a", "c", "c", "o", "u", "n", "t">>)
                \/ includes(window.pathname, <<"/", "p", "r", "o", "f", "i", "l", "e">>)
        THEN "account"
        ELSE IF \/ includes(window.pathname, <<"/", "s", "u", "p", "p", "o", "r", "t">>)
                \/ includes(window.pathname, <<"/", "h", "e", "l", "p">>)
        THEN "support"
        ELSE "general"]

\* the errors detectErrors has collected
DetectedErrors ==
    {<<>>, <<[type |-> "js_error", message |-> "x is not defined"]>>}

\* messageContext that is the supplied context with the errors added
messageContext_PassesThrough(context, errors, window) ==
    [f \in DOMAIN context \cup {"errors"} |->
        IF f = "errors" THEN errors ELSE context[f]]

\* messageContext of sendMessage and startConversation; context is a record
\* or null (no field), errors a sequence
messageContext(context, errors, window) ==
    [pageType |->
        IF "pageType" \in DOMAIN context /\ context.pageType # ""
        THEN context.pageType
        ELSE "general",
     errors |-> errors,
     url |-> window.href,
     userAgent |-> USER_AGENT]

\* the context of the payload: { ...context, timestamp, user_agent, url }
payloadContext(context, t, window) ==
    [f \in DOMAIN context \cup {"timestamp", "user_agent", "url"} |->
        IF f = "timestamp" THEN toISOString(t)
        ELSE IF f = "user_agent" THEN USER_AGENT
        ELSE IF f = "url" THEN window.href
        ELSE context[f]]

\* a Widget whose context detection found nothing to do
NoWidget ==
    [context |-> NoFields, errors |-> <<>>,
     location |-> Window("https://shop.example/", <<"/">>, "Shop"),
     payloads |-> <<>>]

\* the hook as useState leaves it at mount
Mounted ==
    /\ messages = <<>>
    /\ isLoading = FALSE
    /\ conversationMode = FALSE
    /\ currentView = "feedback"
    /\ now = 0
    /\ calls = <<>>
    /\ fetched = NoFetch

(***************************************************************************)
(* The operations invoked in any order: Spec.                              *)
(***************************************************************************)
Init ==
    /\ Mounted
    /\ sessionId = generateSessionId
    /\ service = NoService
    /\ page = NoPage
    /\ widget = NoWidget

Tick ==
    /\ now < MaxNow
    /\ now' = now + 1
    /\ UNCHANGED <<messages, isLoading, conversationMode, currentView,
                   sessionId, calls, fetched, service, page, widget>>

SendMessage ==
    /\ Len(calls) < MaxCalls
    /\ \E content \in Contents :
          Apply(sendMessage(State, content, now, sessionId))
    /\ UNCHANGED <<sessionId, now, fetched, service, page, widget>>

StartConversation ==
    /\ Len(calls) < MaxCalls
    /\ Apply(startConversation(State, sessionId))
    /\ UNCHANGED <<sessionId, now, fetched, service, page, widget>>

ClearConversation ==
    /\ Len(calls) < MaxCalls
    /\ Apply(clearConversation(State, sessionId))
    /\ UNCHANGED <<sessionId, now, fetched, service, page, widget>>

EndConversation ==
    /\ Len(calls) < MaxCalls
    /\ Apply(endConversation(State, sessionId, FALSE))
    /\ UNCHANGED <<sessionId, now, fetched, service, page, widget>>

SendMessageSettles ==
    /\ \E i \in Awaiting(calls, {"sendMessage"}) :
          \E o \in ChatOutcomes : Apply(sendMessageResume(State, i, o, now))
    /\ UNCHANGED <<sessionId, now, fetched, service, page, widget>>

StartConversationSettles ==
    /\ \E i \in Awaiting(calls, {"startConversation"}) :
          \E o \in StartOutcomes :
              Apply(startConversationResume(State, i, o, now))
    /\ UNCHANGED <<sessionId, now, fetched, service, page, widget>>

ClearConversationSettles ==
    /\ \E i \in Awaiting(calls, {"clearConversation"}) :
          \E o \in PlainOutcomes : Apply(clearConversationResume(State, i, o))
    /\ UNCHANGED <<sessionId, now, fetched, service, page, widget>>

EndConversationSettles ==
    /\ \E i \in Awaiting(calls, {"endConversation"}) :
          \E o \in PlainOutcomes : Apply(endConversationResume(State, i, o))
    /\ UNCHANGED <<sessionId, now, fetched, service, page, widget>>

Next ==
    \/ SendMessage
    \/ StartConversation
    \/ ClearConversation
    \/ EndConversation
    \/ SendMessageSettles
    \/ StartConversationSettles
    \/ ClearConversationSettles
    \/ EndConversationSettles

\* No guard and no branch of the operations reads the clock: it only stamps
\* the messages.  Spec leaves it where it is; ClockSpec lets it run.
Spec == Init /\ [][Next]_vars

\* invocations of the operations in one behaviour of ClockSpec
MaxClockCalls == 2

ClockNext ==
    \/ Tick
    \/ Len(calls) < MaxClockCalls /\ SendMessage
    \/ Len(calls) < MaxClockCalls /\ StartConversation
    \/ Len(calls) < MaxClockCalls /\ ClearConversation
    \/ Len(calls) < MaxClockCalls /\ EndConversation
    \/ SendMessageSettles
    \/ StartConversationSettles
    \/ ClearConversationSettles
    \/ EndConversationSettles

ClockSpec == Init /\ [][ClockNext]_vars

(***************************************************************************)
(* The operations with what each fetch came to on record: ObservedSpec.    *)
(* The steps are those of Spec; a step in which an operation goes on from  *)
(* its await also notes in fetched what the awaited fetch came to.         *)
(***************************************************************************)
\* invocations of the operations in one behaviour of ObservedSpec
MaxObservedCalls == 2

Observe(i, o) ==
    /\ fetched' = [call |-> i, outcome |-> o]
    /\ UNCHANGED <<sessionId, now, service, page, widget>>

ObservedSendMessageSettles ==
    \E i \in Awaiting(calls, {"sendMessage"}) :
        \E o \in ChatOutcomes :
            Apply(sendMessageResume(State, i, o, now)) /\ Observe(i, o)

ObservedStartConversationSettles ==
    \E i \in Awaiting(calls, {"startConversation"}) :
        \E o \in StartOutcomes :
            Apply(startConversationResume(State, i, o, now)) /\ Observe(i, o)

ObservedClearConversationSettles ==
    \E i \in Awaiting(calls, {"clearConversation"}) :
        \E o \in PlainOutcomes :
            Apply(clearConversationResume(State, i, o)) /\ Observe(i, o)

ObservedEndConversationSettles ==
    \E i \in Awaiting(calls, {"endConversation"}) :
        \E o \in PlainOutcomes :
            Apply(endConversationResume(State, i, o)) /\ Observe(i, o)

ObservedNext ==
    \/ Len(calls) < MaxObservedCalls /\ SendMessage
    \/ Len(calls) < MaxObservedCalls /\ StartConversation
    \/ Len(calls) < MaxObservedCalls /\ ClearConversation
    \/ Len(calls) < MaxObservedCalls /\ EndConversation
    \/ ObservedSendMessageSettles
    \/ ObservedStartConversationSettles
    \/ ObservedClearConversationSettles
    \/ ObservedEndConversationSettles

ObservedSpec == Init /\ [][ObservedNext]_vars

(***************************************************************************)
(* The methods of conversationService called directly: ServiceSpec.        *)
(* A method reads this.sessionId and nothing else that a step can change,  *)
(* so a step is a whole call: the request, what the fetch comes to, the    *)
(* value returned.                                                         *)
(***************************************************************************)
\* requests issued in one behaviour of ServiceSpec
MaxRequests == 3

\* texts handed to sendMessage and to getFallbackResponse
FallbackInputs ==
    {<<"h", "i">>,
     <<"B", "I", "L", "L", "I", "N", "G">>,
     <<"R", "e", "q", "u", "e", "s", "t", " ", "B", "I", "L", "L", "I", "N",
      "G">>,
     <<"h", "e", "l", "p", " ", "b", "i", "l", "l", "i", "n", "g">>,
     <<"S", "u", "p", "p", "o", "r", "t">>,
     <<"b", "u", "g", " ", "e", "r", "r", "o", "r">>,
     <<"m", "y", " ", "i", "s", "s", "u", "e">>,
     <<"f", "e", "a", "t", "u", "r", "e", " ", "b", "u", "g">>,
     <<"P", "r", "o", "b", "l", "e", "m", "?">>}

\* the module is loaded: the constructor has drawn a token
ServiceInit ==
    /\ Mounted
    /\ sessionId \in SessionIds
    /\ service = NoService
    /\ page = NoPage
    /\ widget = NoWidget

ServiceFrame ==
    UNCHANGED <<messages, isLoading, conversationMode, currentView,
                sessionId, now, calls, fetched, page,
                widget>>

\* the service after a method has issued its request and returned
Issued(path, call) ==
    [call |-> call,
     requests |-> Append(service.requests, Request(path, sessionId))]

DirectSendMessage ==
    /\ Len(service.requests) < MaxRequests
    /\ \E message \in FallbackInputs :
          \E o \in ChatOutcomes :
              service' =
                  Issued("/chat",
                         ServiceCall("sendMessage", message, o,
                                     serviceSendMessage(message, o)))
    /\ ServiceFrame

DirectStartConversation ==
    /\ Len(service.requests) < MaxRequests
    /\ \E o \in StartOutcomes :
          service' =
              Issued("/conversation/start",
                     ServiceCall("startConversation", <<>>, o,
                                 serviceStartConversation(o)))
    /\ ServiceFrame

DirectEndConversation ==
    /\ Len(service.requests) < MaxRequests
    /\ \E o \in PlainOutcomes :
          service' =
              Issued("/conversation/end",
                     ServiceCall("endConversation", <<>>, o,
                                 serviceEndConversation(o)))
    /\ ServiceFrame

\* clearConversation drawing a new token for the conversation that follows
DirectClearConversation_NewSession ==
    /\ Len(service.requests) < MaxRequests
    /\ \E o \in PlainOutcomes :
          service' =
              [call |->
                   ServiceCall("clearConversation", <<>>, o,
                               serviceClearConversation(o)),
               requests |->
                   Append(service.requests,
                          Request("/conversation/clear", sessionId))]
    /\ sessionId' \in SessionIds \ {sessionId}
    /\ UNCHANGED <<messages, isLoading, conversationMode, currentView, now,
                   calls, fetched, page,
                widget>>

DirectClearConversation ==
    /\ Len(service.requests) < MaxRequests
    /\ \E o \in PlainOutcomes :
          service' =
              Issued("/conversation/clear",
                     ServiceCall("clearConversation", <<>>, o,
                                 serviceClearConversation(o)))
    /\ ServiceFrame

\* the token is the last segment of the path of this GET
DirectGetConversationHistory ==
    /\ Len(service.requests) < MaxRequests
    /\ \E o \in HistoryOutcomes :
          service' =
              Issued("/conversation/history",
                     ServiceCall("getConversationHistory", <<>>, o,
                                 serviceGetConversationHistory(o)))
    /\ ServiceFrame

\* getFallbackResponse issues no request
DirectGetFallbackResponse ==
    /\ \E message \in FallbackInputs :
          service' =
              [service EXCEPT
                  !.call =
                      ServiceCall("getFallbackResponse", message,
                                  NetworkFailure,
                                  Resolved(getFallbackResponse(message),
                                           TRUE))]
    /\ ServiceFrame

ServiceNext ==
    \/ DirectSendMessage
    \/ DirectStartConversation
    \/ DirectEndConversation
    \/ DirectClearConversation
    \/ DirectGetConversationHistory
    \/ DirectGetFallbackResponse

ServiceSpec == ServiceInit /\ [][ServiceNext]_vars

(***************************************************************************)
(* The entry points of the bundle (src/src/main.jsx): PageSpec.            *)
(* The host document holds some elements; the host calls renderMyWidget,   *)
(* errors of the host page reach the two handlers, and the widget of each  *)
(* root issues requests through the one conversationService of the module. *)
(***************************************************************************)
\* calls of renderMyWidget in one behaviour of PageSpec
MaxRenders == 2

\* requests of the widgets in one behaviour of PageSpec
MaxPageRequests == 2

\* ids of the host document, and ids the host hands to renderMyWidget
ElementIds == {"widget-root", "vault-widget-container", "feedback-button"}

\* ReactDOM.createRoot(container) and root.render(<Widget .../>)
Root(container, errorTriggered) ==
    [container |-> container, errorTriggered |-> errorTriggered]

\* document.body.appendChild of an element with this id
WithElement(elements, id) ==
    [e \in DOMAIN elements \cup {id} |->
        IF e \in DOMAIN elements THEN elements[e] ELSE ""]

\* renderMyWidget that makes the container it does not find
renderMyWidget_CreatesContainer(p, containerId) ==
    [p EXCEPT
        !.elements = WithElement(@, containerId),
        !.roots = Append(@, Root(containerId, FALSE)),
        !.renders = Append(@, [containerId |-> containerId, threw |-> FALSE])]

\* window.renderMyWidget
renderMyWidget(p, containerId) ==
    IF containerId \notin DOMAIN p.elements
    THEN [p EXCEPT
            !.renders =
                Append(@, [containerId |-> containerId, threw |-> TRUE])]
    ELSE [p EXCEPT
            !.roots = Append(@, Root(containerId, FALSE)),
            !.renders =
                Append(@, [containerId |-> containerId, threw |-> FALSE])]

\* showWidgetOnError that makes a root on every call
showWidgetOnError_AlwaysCreates(p) ==
    LET containerId == "vault-widget-container"
        made ==
            [p EXCEPT
                !.elements = WithElement(@, containerId),
                !.roots = Append(@, Root(containerId, TRUE)),
                !.handled = IF @ = "none" THEN "one" ELSE "more"]
        shown == [made EXCEPT !.elements[containerId] = "block"]
    IN  IF "feedback-button" \in DOMAIN shown.elements
        THEN [shown EXCEPT !.elements["feedback-button"] = "none"]
        ELSE shown

\* showWidgetOnError; handled: whether it has run, once or more than once
showWidgetOnError(p) ==
    LET containerId == "vault-widget-container"
        made ==
            IF containerId \notin DOMAIN p.elements
            THEN [p EXCEPT
                    !.elements = WithElement(@, containerId),
                    !.roots = Append(@, Root(containerId, TRUE)),
                    !.handled = IF @ = "none" THEN "one" ELSE "more"]
            ELSE [p EXCEPT
                    !.handled = IF @ = "none" THEN "one" ELSE "more"]
        shown == [made EXCEPT !.elements[containerId] = "block"]
    IN  IF "feedback-button" \in DOMAIN shown.elements
        THEN [shown EXCEPT !.elements["feedback-button"] = "none"]
        ELSE shown

\* the hook of a widget at mount
MountedHook ==
    [messages |-> <<>>, isLoading |-> FALSE, conversationMode |-> FALSE,
     currentView |-> "feedback", calls |-> <<>>]

\* the requests the four operations of a hook issue, each through the
\* conversationService that Widget.jsx imports
HookRequests(session) ==
    LET issued(s) == s.calls[Len(s.calls)].requests
    IN  UNION
            {{issued(sendMessage(MountedHook, content, 0, session))[k] :
                 k \in DOMAIN issued(sendMessage(MountedHook, content, 0,
                                                 session))} :
                content \in Contents}
        \cup {issued(startConversation(MountedHook, session))[1],
              issued(clearConversation(MountedHook, session))[1],
              issued(endConversation(MountedHook, session, FALSE))[1]}

\* the module is loaded into a document: the service is constructed, the
\* handlers are installed, nothing is rendered
PageInit ==
    /\ Mounted
    /\ sessionId = generateSessionId
    /\ service = NoService
    /\ \E present \in SUBSET ElementIds :
          page = Page([e \in present |-> ""], <<>>, <<>>, <<>>)
    /\ widget = NoWidget

PageFrame ==
    UNCHANGED <<messages, isLoading, conversationMode, currentView,
                sessionId, now, calls, fetched, service, widget>>

RenderMyWidget ==
    /\ Len(page.renders) < MaxRenders
    /\ \E containerId \in ElementIds :
          page' = renderMyWidget(page, containerId)
    /\ PageFrame

\* window.onerror
WindowOnError ==
    /\ page' = showWidgetOnError(page)
    /\ PageFrame

\* the listener of "unhandledrejection"
UnhandledRejection ==
    /\ page' = showWidgetOnError(page)
    /\ PageFrame

\* the widget of a root invokes an operation of its hook
WidgetIssuesRequest ==
    /\ Len(page.requests) < MaxPageRequests
    /\ \E r \in DOMAIN page.roots :
          \E request \in HookRequests(sessionId) :
              page' =
                  [page EXCEPT
                      !.requests =
                          Append(@, [root |-> r, request |-> request])]
    /\ PageFrame

PageNext ==
    \/ RenderMyWidget
    \/ WindowOnError
    \/ UnhandledRejection
    \/ WidgetIssuesRequest

PageSpec == PageInit /\ [][PageNext]_vars

(***************************************************************************)
(* The context that reaches the backend: ContextSpec.  The Widget has      *)
(* detected its context at mount, or has context detection disabled; the   *)
(* host page navigates, the clock runs, and sendMessage and                *)
(* startConversation build the context of their payloads.                  *)
(***************************************************************************)
\* payloads built in one behaviour of ContextSpec
MaxPayloads == 2

ContextInit ==
    /\ Mounted
    /\ sessionId = generateSessionId
    /\ service = NoService
    /\ page = NoPage
    /\ \E window \in Windows, enableContextDetection \in BOOLEAN :
          \E errors \in IF enableContextDetection
                        THEN DetectedErrors ELSE {<<>>} :
             widget =
                [context |->
                    IF enableContextDetection
                    THEN detectPageContext(window, 0) ELSE NoFields,
                 errors |-> errors,
                 location |-> window,
                 payloads |-> <<>>]

ContextFrame ==
    UNCHANGED <<messages, isLoading, conversationMode, currentView,
                sessionId, now, calls, fetched, service, page>>

\* the host page changes window.location (history.pushState)
Navigate ==
    /\ \E window \in Windows \ {widget.location} :
          widget' = [widget EXCEPT !.location = window]
    /\ ContextFrame

\* sendMessage(message, context, errors) of the Widget builds its payload
SendMessageBuildsContext ==
    /\ Len(widget.payloads) < MaxPayloads
    /\ widget' =
          [widget EXCEPT !.payloads =
              Append(@, [path |-> "/chat",
                         supplied |-> widget.context,
                         errors |-> widget.errors,
                         location |-> widget.location,
                         at |-> now,
                         context |->
                            payloadContext(
                                messageContext(widget.context, widget.errors,
                                               widget.location),
                                now, widget.location)])]
    /\ ContextFrame

\* startConversation(context, errors) of the effect builds its payload
StartConversationBuildsContext ==
    /\ Len(widget.payloads) < MaxPayloads
    /\ widget' =
          [widget EXCEPT !.payloads =
              Append(@, [path |-> "/conversation/start",
                         supplied |-> widget.context,
                         errors |-> widget.errors,
                         location |-> widget.location,
                         at |-> now,
                         context |->
                            payloadContext(
                                messageContext(widget.context, widget.errors,
                                               widget.location),
                                now, widget.location)])]
    /\ ContextFrame

ContextNext ==
    \/ Tick
    \/ Navigate
    \/ SendMessageBuildsContext
    \/ StartConversationBuildsContext

ContextSpec == ContextInit /\ [][ContextNext]_vars

(***************************************************************************)
(* The operations invoked through the Widget component: UISpec.            *)
(***************************************************************************)
\* the auto-start effect with currentView as its only dependency
AutoStart_OnlyOnViewChange(prev, s, session) ==
    IF /\ prev.currentView # s.currentView
       /\ s.currentView = "conversation"
       /\ Len(s.messages) = 0
       /\ ~s.isLoading
    THEN startConversation(s, session)
    ELSE s

\* the auto-start effect without !isLoading in its condition
AutoStart_IgnoresLoading(prev, s, session) ==
    IF /\ \/ prev.currentView # s.currentView
          \/ Len(prev.messages) # Len(s.messages)
          \/ prev.isLoading # s.isLoading
       /\ s.currentView = "conversation"
       /\ Len(s.messages) = 0
    THEN startConversation(s, session)
    ELSE s

\* The auto-start effect, run after the render that follows a step: its
\* dependencies are currentView, messages.length and isLoading (context and
\* errors are set once, at mount, in the feedback view).
AutoStart(prev, s, session) ==
    IF /\ \/ prev.currentView # s.currentView
          \/ Len(prev.messages) # Len(s.messages)
          \/ prev.isLoading # s.isLoading
       /\ s.currentView = "conversation"
       /\ Len(s.messages) = 0
       /\ ~s.isLoading
    THEN startConversation(s, session)
    ELSE s

\* a step of the component: the handler, the render, the effect
Render(s) == Apply(AutoStart(State, s, sessionId))

\* the "AI Assistant" tab
SelectConversation ==
    /\ currentView # "conversation"
    /\ Render([State EXCEPT !.currentView = "conversation"])
    /\ UNCHANGED <<sessionId, now, fetched, service, page, widget>>

\* the "Feedback" tab
SelectFeedback ==
    /\ currentView # "feedback"
    /\ Render([State EXCEPT !.currentView = "feedback"])
    /\ UNCHANGED <<sessionId, now, fetched, service, page, widget>>

\* what the Enter key and the Send button do with the textarea's value
Submit(s, value, t, session) ==
    LET message == trim(value)
    IN  IF message # <<>> THEN sendMessage(s, message, t, session) ELSE s

\* Enter in the textarea, which is disabled while isLoading
handleConversationInput ==
    /\ currentView = "conversation"
    /\ ~isLoading
    /\ Len(calls) < MaxCalls
    /\ \E value \in Contents : Render(Submit(State, value, now, sessionId))
    /\ UNCHANGED <<sessionId, now, fetched, service, page, widget>>

\* the Send button without disabled={isLoading}
SendClick_NotDisabled ==
    /\ currentView = "conversation"
    /\ Len(calls) < MaxCalls
    /\ \E value \in Contents : Render(Submit(State, value, now, sessionId))
    /\ UNCHANGED <<sessionId, now, fetched, service, page, widget>>

\* the Send button, which is disabled while isLoading
SendClick ==
    /\ currentView = "conversation"
    /\ ~isLoading
    /\ Len(calls) < MaxCalls
    /\ \E value \in Contents : Render(Submit(State, value, now, sessionId))
    /\ UNCHANGED <<sessionId, now, fetched, service, page, widget>>

\* the Clear Chat button
ClearChatClick ==
    /\ currentView = "conversation"
    /\ Len(calls) < MaxCalls
    /\ Render(clearConversation(State, sessionId))
    /\ UNCHANGED <<sessionId, now, fetched, service, page, widget>>

\* the Back to Feedback button: await endConversation(), then the view
BackClick ==
    /\ currentView = "conversation"
    /\ Len(calls) < MaxCalls
    /\ Render(endConversation(State, sessionId, TRUE))
    /\ UNCHANGED <<sessionId, now, fetched, service, page, widget>>

UISendMessageSettles ==
    /\ \E i \in Awaiting(calls, {"sendMessage"}) :
          \E o \in ChatOutcomes : Render(sendMessageResume(State, i, o, now))
    /\ UNCHANGED <<sessionId, now, fetched, service, page, widget>>

UIStartConversationSettles ==
    /\ \E i \in Awaiting(calls, {"startConversation"}) :
          \E o \in StartOutcomes :
              Render(startConversationResume(State, i, o, now))
    /\ UNCHANGED <<sessionId, now, fetched, service, page, widget>>

UIClearConversationSettles ==
    /\ \E i \in Awaiting(calls, {"clearConversation"}) :
          \E o \in PlainOutcomes : Render(clearConversationResume(State, i, o))
    /\ UNCHANGED <<sessionId, now, fetched, service, page, widget>>

UIEndConversationSettles ==
    /\ \E i \in Awaiting(calls, {"endConversation"}) :
          \E o \in PlainOutcomes : Render(endConversationResume(State, i, o))
    /\ UNCHANGED <<sessionId, now, fetched, service, page, widget>>

UINext ==
    \/ SelectConversation
    \/ SelectFeedback
    \/ handleConversationInput
    \/ SendClick
    \/ ClearChatClick
    \/ BackClick
    \/ UISendMessageSettles
    \/ UIStartConversationSettles
    \/ UIClearConversationSettles
    \/ UIEndConversationSettles

UISpec == Init /\ [][UINext]_vars

\* A fetch settles in the end, with a response or with a rejection; so the
\* startConversation the effect has invoked does not stay at its await.
UIFairSpec == UISpec /\ WF_vars(UIStartConversationSettles)

(***************************************************************************)
(* Steps and sequences, as the properties below read them.                 *)
(***************************************************************************)
SEND == "sendMessage"

\* the step invokes call i
Invoked(i) == i \notin DOMAIN calls /\ i \in DOMAIN calls'

\* the step resumes call i from its await and finishes it
Settled(i) ==
    i \in DOMAIN calls /\ calls[i].pc = "await" /\ calls'[i].pc = "done"

\* the positions of the messages of the given type that call i built
Built(ms, i, type) ==
    {j \in DOMAIN ms : ms[j].call = i /\ ms[j].type = type}

\* sendMessage calls whose content is not empty once trimmed
NonBlankSends(cs) ==
    {i \in DOMAIN cs : cs[i].kind = SEND /\ trim(cs[i].content) # <<>>}

BlankSends(cs) ==
    {i \in DOMAIN cs : cs[i].kind = SEND /\ trim(cs[i].content) = <<>>}

\* ms is old with the one message m appended
AppendsOne(old, ms) ==
    Len(ms) = Len(old) + 1 /\ SubSeq(ms, 1, Len(old)) = old

(***************************************************************************)
(* C1.  A sendMessage invocation with non-blank content appends exactly    *)
(* one user message holding that content in the step that invokes it,      *)
(* which is also the step that issues its one request; exactly one         *)
(* assistant message of that invocation is appended in the step in which   *)
(* it settles, whatever the fetch came to; and no other step adds a        *)
(* message of that invocation.                                             *)
(***************************************************************************)
C1_Step ==
    \A i \in NonBlankSends(calls') :
        /\ Invoked(i) =>
              /\ AppendsOne(messages, messages')
              /\ messages'[Len(messages')].type = "user"
              /\ messages'[Len(messages')].call = i
              /\ messages'[Len(messages')].content = calls'[i].content
              /\ calls'[i].pc = "await"
              /\ Len(calls'[i].requests) = 1
        /\ Settled(i) =>
              /\ AppendsOne(messages, messages')
              /\ messages'[Len(messages')].type = "ai"
              /\ messages'[Len(messages')].call = i
        /\ ~Invoked(i) /\ ~Settled(i) =>
              /\ Cardinality(Built(messages', i, "user"))
                    <= Cardinality(Built(messages, i, "user"))
              /\ Cardinality(Built(messages', i, "ai"))
                    <= Cardinality(Built(messages, i, "ai"))

C1_SendAppendsOneUserThenOneAssistant == [][C1_Step]_vars

\* a send has settled after a failed fetch, and the sequence holds its one
\* user message and its one assistant message
C1_Witness ==
    \E i \in NonBlankSends(calls) :
        /\ calls[i].pc = "done"
        /\ calls[i].failed
        /\ Cardinality(Built(messages, i, "user")) = 1
        /\ Cardinality(Built(messages, i, "ai")) = 1

(***************************************************************************)
(* C2.  A sendMessage invocation whose content is empty or white space     *)
(* only returns at once: the message sequence, isLoading and               *)
(* conversationMode are as before, no request is issued and no other       *)
(* invocation is touched.                                                  *)
(***************************************************************************)
C2_Step ==
    \A i \in BlankSends(calls') :
        Invoked(i) =>
            /\ messages' = messages
            /\ isLoading' = isLoading
            /\ conversationMode' = conversationMode
            /\ calls'[i].requests = <<>>
            /\ calls'[i].pc = "returned"
            /\ SubSeq(calls', 1, Len(calls)) = calls

C2_BlankSendIsNoOp == [][C2_Step]_vars

\* a white-space-only send has returned while another send is loading
C2_Witness ==
    \E i \in BlankSends(calls) :
        /\ calls[i].content # <<>>
        /\ calls[i].pc = "returned"
        /\ isLoading
        /\ messages # <<>>

(***************************************************************************)
(* C3 as stated.  When the transport call of a sendMessage invocation      *)
(* fails, the assistant message of that invocation is the fixed apology.   *)
(***************************************************************************)
C3_ApologyOnTransportFailure ==
    \A i \in NonBlankSends(calls) :
        calls[i].pc = "done" /\ calls[i].failed => calls[i].reply = APOLOGY

(***************************************************************************)
(* C3, amended.  When the transport call of a sendMessage invocation       *)
(* fails, ConversationService.sendMessage does not reject and the          *)
(* assistant message of that invocation is not the apology; the apology is *)
(* the assistant message of an invocation whose service call rejected.     *)
(***************************************************************************)
C3_ApologyOnlyWhenServiceRejects ==
    \A i \in NonBlankSends(calls) :
        calls[i].pc = "done" =>
            /\ calls[i].failed =>
                  ~calls[i].rejected /\ calls[i].reply # APOLOGY
            /\ calls[i].rejected => calls[i].reply = APOLOGY

\* a send has settled after a failed fetch and its assistant message, which
\* is not the apology, is in the sequence
C3_Witness ==
    \E i \in NonBlankSends(calls) :
        /\ calls[i].pc = "done"
        /\ calls[i].failed
        /\ \E j \in Built(messages, i, "ai") :
              /\ messages[j].content = calls[i].reply
              /\ messages[j].content # APOLOGY

(***************************************************************************)
(* C4.  getFallbackResponse is called only by a sendMessage invocation     *)
(* whose transport call failed (fetch rejected, status not ok, body not    *)
(* a JSON object), and in the step in which such an invocation settles the *)
(* message appended is an assistant message holding                        *)
(* getFallbackResponse(content), built as the message of a real reply is.  *)
(***************************************************************************)
C4_Step ==
    \A i \in DOMAIN calls' :
        /\ calls'[i].fallback => calls'[i].kind = SEND /\ calls'[i].failed
        /\ Settled(i) /\ calls'[i].kind = SEND =>
              /\ calls'[i].fallback = calls'[i].failed
              /\ calls'[i].failed =>
                    /\ AppendsOne(messages, messages')
                    /\ messages'[Len(messages')] =
                          Message(now + 1, "ai",
                                  getFallbackResponse(calls[i].content),
                                  now, i)

C4_FallbackOnlyOnFailureAndAppended == [][C4_Step]_vars

\* a send of " Billing" has settled after a failed fetch and the payment text
\* is its assistant message
C4_Witness ==
    \E i \in NonBlankSends(calls) :
        /\ calls[i].pc = "done"
        /\ calls[i].failed
        /\ calls[i].fallback
        /\ \E j \in Built(messages, i, "ai") :
              messages[j].content = FALLBACK_PAYMENT

(***************************************************************************)
(* C5.  isLoading does not stick: in every state in which no sendMessage   *)
(* and no startConversation invocation is at its await, isLoading is       *)
(* false.                                                                  *)
(***************************************************************************)
LOADERS == {"sendMessage", "startConversation"}

C5_NoPendingImpliesNotLoading ==
    Awaiting(calls, LOADERS) = {} => ~isLoading

\* a send and a start have both settled after failed fetches, nothing is
\* pending and isLoading is false
C5_Witness ==
    /\ \E i \in DOMAIN calls :
          calls[i].kind = SEND /\ calls[i].pc = "done" /\ calls[i].failed
    /\ \E i \in DOMAIN calls :
          /\ calls[i].kind = "startConversation"
          /\ calls[i].pc = "done"
          /\ calls[i].failed
    /\ Awaiting(calls, LOADERS) = {}
    /\ ~isLoading

(***************************************************************************)
(* C6 as stated.  isLoading is true only while exactly one outbound        *)
(* request is in flight.                                                   *)
(***************************************************************************)
OPERATIONS ==
    {"sendMessage", "startConversation", "clearConversation",
     "endConversation"}

C6_LoadingOnlyWithExactlyOneRequest ==
    isLoading => Cardinality(Awaiting(calls, OPERATIONS)) = 1

(***************************************************************************)
(* C6, amended.  With the operations invoked through the widget,           *)
(* isLoading is true only while exactly one sendMessage or                 *)
(* startConversation request is in flight; clearConversation and           *)
(* endConversation requests may be in flight beside it.                    *)
(***************************************************************************)
C6_LoadingOnlyWithExactlyOneLoader ==
    isLoading => Cardinality(Awaiting(calls, LOADERS)) = 1

\* isLoading with a sendMessage request and a clearConversation request both
\* in flight
C6_Witness ==
    /\ isLoading
    /\ Awaiting(calls, {SEND}) # {}
    /\ Awaiting(calls, {"clearConversation"}) # {}

(***************************************************************************)
(* C7.  With the operations invoked through the widget, a step that        *)
(* issues a sendMessage or startConversation request leaves that request   *)
(* the only sendMessage or startConversation request in flight.            *)
(***************************************************************************)
C7_Step ==
    \A i \in DOMAIN calls' :
        Invoked(i) /\ calls'[i].kind \in LOADERS /\ calls'[i].pc = "await"
            => Awaiting(calls', LOADERS) = {i}

C7_NoOverlapThroughUI == [][C7_Step]_vars

\* a send is in flight, issued after the auto-start settled, with a clear
\* request in flight beside it
C7_Witness ==
    \E i \in Awaiting(calls, {SEND}) :
        /\ \E j \in 1..(i - 1) :
              calls[j].kind = "startConversation" /\ calls[j].pc = "done"
        /\ Awaiting(calls, {"clearConversation"}) # {}

(***************************************************************************)
(* C8 as stated.  Every assistant message in the sequence that a           *)
(* sendMessage invocation built is preceded in the sequence by the user    *)
(* message of that invocation.                                             *)
(***************************************************************************)
C8_ReplyPrecededByItsUserMessage ==
    \A j \in DOMAIN messages :
        messages[j].type = "ai" /\ calls[messages[j].call].kind = SEND =>
            \E k \in 1..(j - 1) :
                messages[k].type = "user"
                    /\ messages[k].call = messages[j].call

(***************************************************************************)
(* C8, amended.  Every assistant message in the sequence that a            *)
(* sendMessage invocation built is preceded in the sequence by the user    *)
(* message of that invocation, unless a clearConversation or a             *)
(* startConversation replaced the sequence while the invocation was at its *)
(* await; and a user message of the invocation that is in the sequence is  *)
(* never after the reply.                                                  *)
(***************************************************************************)
C8_ReplyPrecededUnlessSequenceReplaced ==
    \A j \in DOMAIN messages :
        messages[j].type = "ai" /\ calls[messages[j].call].kind = SEND =>
            /\ ~calls[messages[j].call].wiped =>
                  \E k \in 1..(j - 1) :
                      messages[k].type = "user"
                          /\ messages[k].call = messages[j].call
            /\ \A k \in Built(messages, messages[j].call, "user") : k < j

\* two overlapping sends: the reply of the first stands after the user
\* message of the second
C8_Witness ==
    \E j \in DOMAIN messages :
        /\ messages[j].type = "ai"
        /\ calls[messages[j].call].kind = SEND
        /\ ~calls[messages[j].call].wiped
        /\ \E k \in 1..(j - 1) :
              /\ messages[k].type = "user"
              /\ messages[k].call > messages[j].call

(***************************************************************************)
(* C9.  Within one sendMessage invocation the user message is appended in  *)
(* the invoking step, which ends suspended at the await with no reply      *)
(* appended; the reply of the invocation enters the sequence only in a     *)
(* later step, the one in which the invocation settles.                    *)
(***************************************************************************)
C9_Step ==
    \A i \in NonBlankSends(calls') :
        /\ Invoked(i) =>
              /\ Built(messages', i, "user") # {}
              /\ Built(messages', i, "ai") = {}
              /\ calls'[i].pc = "await"
        /\ Built(messages, i, "ai") = {} /\ Built(messages', i, "ai") # {}
              => Settled(i)

C9_UserAppendedInEarlierStepThanReply == [][C9_Step]_vars

\* a settled send whose user message and reply are both in the sequence, the
\* user message first
C9_Witness ==
    \E i \in NonBlankSends(calls) :
        /\ calls[i].pc = "done"
        /\ \E j \in Built(messages, i, "user") :
              \E k \in Built(messages, i, "ai") : j < k

(***************************************************************************)
(* C10.  In the step in which a clearConversation invocation settles the   *)
(* message sequence becomes empty, whatever the fetch of the remote clear  *)
(* came to.                                                                *)
(***************************************************************************)
C10_Step ==
    \A i \in DOMAIN calls :
        Settled(i) /\ calls[i].kind = "clearConversation" => messages' = <<>>

C10_ClearAlwaysEmpties == [][C10_Step]_vars

\* a clear whose fetch rejected has settled and removed the user message of a
\* send still in flight; nothing else replaced the sequence
C10_Witness ==
    /\ messages = <<>>
    /\ \E i \in DOMAIN calls :
          /\ calls[i].kind = "clearConversation"
          /\ calls[i].pc = "done"
          /\ calls[i].failed
    /\ \E i \in Awaiting(calls, {SEND}) : calls[i].wiped
    /\ \A i \in DOMAIN calls : calls[i].kind # "startConversation"

(***************************************************************************)
(* C11.  startConversation, when it settles, leaves a sequence of exactly  *)
(* one assistant message and conversationMode true, whatever the sequence  *)
(* held and whatever the fetch came to; the message holds the backend's    *)
(* welcome_message when the fetch succeeded with one, the fixed greeting   *)
(* when the field is missing or empty or the fetch failed.                 *)
(***************************************************************************)
\* the welcome text a start outcome stands for
Welcome(o) ==
    IF /\ ~o.rejects
       /\ o.status \in 200..299
       /\ o.json = "object"
       /\ "welcome_message" \in DOMAIN o.data
       /\ o.data.welcome_message # <<>>
    THEN o.data.welcome_message
    ELSE DEFAULT_GREETING

C11_Step ==
    \A i \in DOMAIN calls :
        Settled(i) /\ calls[i].kind = "startConversation"
            => /\ fetched'.call = i
               /\ Len(messages') = 1
               /\ messages'[1].type = "ai"
               /\ messages'[1].content = Welcome(fetched'.outcome)
               /\ conversationMode'

C11_StartLeavesOneGreeting == [][C11_Step]_vars

\* a start has settled on a failed fetch, over a sequence that held messages
\* of an earlier send, and left the fixed greeting alone
C11_Witness ==
    /\ fetched.call \in DOMAIN calls
    /\ calls[fetched.call].kind = "startConversation"
    /\ calls[fetched.call].failed
    /\ \E k \in DOMAIN calls :
          /\ k < fetched.call
          /\ calls[k].kind = "sendMessage"
          /\ calls[k].pc = "done"
    /\ Len(messages) = 1
    /\ messages[1].call = fetched.call
    /\ messages[1].content = DEFAULT_GREETING

(***************************************************************************)
(* C12.  No transport failure reaches the caller of an operation as an     *)
(* exception: whatever its fetch comes to, each of sendMessage,            *)
(* startConversation, clearConversation and endConversation runs to its    *)
(* end, and the service method it awaited has resolved, not rejected.      *)
(***************************************************************************)
\* the invocation i of s has run to its end on a resolved service method
Returned(s, i) == s.calls[i].pc = "done" /\ ~s.calls[i].rejected

C12_NoFailureReachesTheCaller ==
    /\ \A i \in DOMAIN calls : calls[i].pc = "done" => ~calls[i].rejected
    /\ \A i \in Awaiting(calls, {"sendMessage"}) :
          \A o \in ChatOutcomes :
              Returned(sendMessageResume(State, i, o, now), i)
    /\ \A i \in Awaiting(calls, {"startConversation"}) :
          \A o \in StartOutcomes :
              Returned(startConversationResume(State, i, o, now), i)
    /\ \A i \in Awaiting(calls, {"clearConversation"}) :
          \A o \in PlainOutcomes :
              Returned(clearConversationResume(State, i, o), i)
    /\ \A i \in Awaiting(calls, {"endConversation"}) :
          \A o \in PlainOutcomes :
              Returned(endConversationResume(State, i, o), i)

\* three operations have run to their end on a failed fetch
C12_Witness ==
    /\ Len(calls) = 3
    /\ \A i \in DOMAIN calls : calls[i].pc = "done" /\ calls[i].failed
    /\ \E i, j, k \in DOMAIN calls :
          /\ calls[i].kind = "sendMessage"
          /\ calls[j].kind = "startConversation"
          /\ calls[k].kind \in {"clearConversation", "endConversation"}

(***************************************************************************)
(* C13.  endConversation leaves messages, conversationMode and isLoading   *)
(* as they were, in the step that invokes it and in the step in which it   *)
(* settles, whether the remote end call succeeded or failed.               *)
(***************************************************************************)
C13_Step ==
    \A i \in DOMAIN calls' :
        /\ calls'[i].kind = "endConversation"
        /\ Invoked(i) \/ Settled(i)
        => UNCHANGED <<messages, conversationMode, isLoading>>

C13_EndLeavesLocalState == [][C13_Step]_vars

\* one end has settled on a failed call and one on a successful call, with a
\* send in flight: its user message is in the sequence and isLoading is true
C13_Witness ==
    /\ \E i, j \in DOMAIN calls :
          /\ calls[i].kind = "endConversation"
          /\ calls[i].pc = "done"
          /\ calls[i].failed
          /\ calls[j].kind = "endConversation"
          /\ calls[j].pc = "done"
          /\ ~calls[j].failed
    /\ Awaiting(calls, {"sendMessage"}) # {}
    /\ messages # <<>>
    /\ isLoading

(***************************************************************************)
(* C16.  On a successful /chat response (a 2xx status with an object as    *)
(* its body) sendMessage of the service returns the body's response, else  *)
(* its message, else the fixed "could not process" text, an empty text     *)
(* counting as absent; the hook appends that text as the assistant         *)
(* message, so that a send nothing came in between of leaves the sequence  *)
(* ending with its user message and that assistant message.                *)
(***************************************************************************)
\* the reply a body of /chat stands for
Reply(data) ==
    IF "response" \in DOMAIN data /\ data.response # <<>>
    THEN data.response
    ELSE IF "message" \in DOMAIN data /\ data.message # <<>>
    THEN data.message
    ELSE COULD_NOT_PROCESS

Successful(o) == ~o.rejects /\ o.status \in 200..299 /\ o.json = "object"

C16_Step ==
    \A i \in DOMAIN calls :
        /\ Settled(i)
        /\ calls[i].kind = "sendMessage"
        /\ fetched'.call = i
        /\ Successful(fetched'.outcome)
        => LET n == Len(messages')
           IN  /\ n = Len(messages) + 1
               /\ SubSeq(messages', 1, n - 1) = messages
               /\ messages'[n].type = "ai"
               /\ messages'[n].content = Reply(fetched'.outcome.data)
               /\ messages # <<>> /\ messages[n - 1].call = i
                     => /\ messages'[n - 1].type = "user"
                        /\ messages'[n - 1].content = calls[i].content

C16_ReplyFromResponseThenMessage == [][C16_Step]_vars

\* a send has settled on a body with a response and a message: the sequence
\* is its user message and the response
C16_Witness ==
    /\ fetched.call \in DOMAIN calls
    /\ calls[fetched.call].kind = "sendMessage"
    /\ Successful(fetched.outcome)
    /\ DOMAIN fetched.outcome.data = {"response", "message"}
    /\ fetched.outcome.data.response # <<>>
    /\ Len(messages) = 2
    /\ messages[1].type = "user"
    /\ messages[1].content = calls[fetched.call].content
    /\ messages[2].type = "ai"
    /\ messages[2].content = fetched.outcome.data.response

(***************************************************************************)
(* C14.  The session token is the one the constructor assigned: no call of *)
(* a method changes it, and every request that sendMessage,                *)
(* startConversation, endConversation, clearConversation and               *)
(* getConversationHistory have issued, in any order, carries it.           *)
(***************************************************************************)
C14_Step ==
    /\ sessionId' = sessionId
    /\ \A k \in DOMAIN service'.requests :
          service'.requests[k].session_id = sessionId

C14_OneTokenOnEveryRequest == [][C14_Step]_vars

\* three methods, getConversationHistory among them, have issued their
\* requests under the token the constructor drew
C14_Witness ==
    /\ Len(service.requests) = 3
    /\ \A j, k \in DOMAIN service.requests :
          j # k => service.requests[j].path # service.requests[k].path
    /\ \E k \in DOMAIN service.requests :
          service.requests[k].path = "/conversation/history"
    /\ \A k \in DOMAIN service.requests :
          service.requests[k].session_id = sessionId
    /\ sessionId # generateSessionId

(***************************************************************************)
(* C17.  The Fallback Responder answers with the text of the first rule of *)
(* the ordered table (help/support, payment/billing, error/problem,        *)
(* feature/request, bug/issue) one of whose keywords occurs in the input,  *)
(* letters compared without regard to case, and with the generic           *)
(* acknowledgment when no rule matches; so an input with "billing" in any  *)
(* case and neither "help" nor "support" gets the payment text.            *)
(***************************************************************************)
RuleTable ==
    <<
      [keywords |->
           {<<"h", "e", "l", "p">>,
            <<"s", "u", "p", "p", "o", "r", "t">>},
       text |-> FALLBACK_HELP],
      [keywords |->
           {<<"p", "a", "y", "m", "e", "n", "t">>,
            <<"b", "i", "l", "l", "i", "n", "g">>},
       text |-> FALLBACK_PAYMENT],
      [keywords |->
           {<<"e", "r", "r", "o", "r">>,
            <<"p", "r", "o", "b", "l", "e", "m">>},
       text |-> FALLBACK_ERROR],
      [keywords |->
           {<<"f", "e", "a", "t", "u", "r", "e">>,
            <<"r", "e", "q", "u", "e", "s", "t">>},
       text |-> FALLBACK_FEATURE],
      [keywords |->
           {<<"b", "u", "g">>,
            <<"i", "s", "s", "u", "e">>},
       text |-> FALLBACK_BUG]
    >>

\* the same letter, in either case
SameLetter(a, b) ==
    \/ a = b
    \/ \E n \in 1..26 : {a, b} = {UpperCase[n], LowerCase[n]}

\* the keyword occurs in the input, whatever the case of the input's letters
Occurs(keyword, input) ==
    \E at \in 0..(Len(input) - Len(keyword)) :
        \A j \in 1..Len(keyword) : SameLetter(input[at + j], keyword[j])

Matching(input) ==
    {r \in DOMAIN RuleTable :
        \E keyword \in RuleTable[r].keywords : Occurs(keyword, input)}

FirstMatch(input) ==
    IF Matching(input) = {}
    THEN FALLBACK_GENERIC
    ELSE RuleTable[CHOOSE r \in Matching(input) :
                       \A q \in Matching(input) : r <= q].text

C17_FirstMatchingRuleWins ==
    LET call == service.call
    IN  /\ call.method = "getFallbackResponse"
            => /\ call.result.value = FirstMatch(call.message)
               /\ /\ Occurs(<<"b", "i", "l", "l", "i", "n", "g">>, call.message)
                  /\ ~Occurs(<<"h", "e", "l", "p">>, call.message)
                  /\ ~Occurs(<<"s", "u", "p", "p", "o", "r", "t">>,
                             call.message)
                  => call.result.value = FALLBACK_PAYMENT
        /\ call.method = "sendMessage" /\ call.result.fallback
            => call.result.value = FirstMatch(call.message)

\* the responder was given a text with "BILLING" in capitals that also
\* matches the later feature/request rule, and answered with the payment text
C17_Witness ==
    /\ service.call.method = "getFallbackResponse"
    /\ Cardinality(Matching(service.call.message)) = 2
    /\ \E at \in 1..Len(service.call.message) :
          service.call.message[at] = "B"
    /\ service.call.result.value = FALLBACK_PAYMENT

(***************************************************************************)
(* C18.  getConversationHistory resolves with the backend's messages when  *)
(* the response is 2xx with a body that has them, and with the empty       *)
(* sequence when the fetch rejects, the status is not 2xx, the body does   *)
(* not parse or has no messages; it never rejects, and the call leaves the *)
(* session token and the state of the hook as they were.                   *)
(***************************************************************************)
C18_Step ==
    /\ service' # service
    /\ service'.call.method = "getConversationHistory"
    => LET o == service'.call.outcome
           result == service'.call.result
       IN  /\ ~result.rejected
           /\ result.value =
                 IF Successful(o) /\ "messages" \in DOMAIN o.data
                 THEN o.data.messages
                 ELSE <<>>
           /\ UNCHANGED <<sessionId, messages, isLoading, conversationMode,
                          calls>>

C18_HistoryOrEmpty == [][C18_Step]_vars

\* a history call after another one: the last has come back with the
\* messages of the backend, and the request before it was a history request too
C18_Witness ==
    /\ Len(service.requests) >= 2
    /\ \A k \in DOMAIN service.requests :
          service.requests[k].path = "/conversation/history"
    /\ service.call.method = "getConversationHistory"
    /\ service.call.result.value = HistoryMessages
    /\ service.call.outcome.data.messages = HistoryMessages

(***************************************************************************)
(* C19.  renderMyWidget called with an id that no element of the document  *)
(* has throws, creates no root and renders no widget, and is not retried:  *)
(* the call changes nothing of the page, and a root is only ever created   *)
(* in the step of a renderMyWidget call that found its container or of an  *)
(* error handler that found no widget container.                           *)
(***************************************************************************)
\* this step is a call of renderMyWidget
RenderCalled == Len(page'.renders) = Len(page.renders) + 1

C19_Step ==
    LET call == page'.renders[Len(page'.renders)]
    IN  /\ RenderCalled /\ call.containerId \notin DOMAIN page.elements
            => /\ call.threw
               /\ page'.roots = page.roots
               /\ page'.elements = page.elements
               /\ page'.requests = page.requests
        /\ page'.roots # page.roots
            => \/ /\ RenderCalled
                  /\ call.containerId \in DOMAIN page.elements
                  /\ ~call.threw
               \/ /\ ~RenderCalled
                  /\ "vault-widget-container" \notin DOMAIN page.elements
                  /\ "vault-widget-container" \in DOMAIN page'.elements

C15_DistinctTokensPerWidget ==
    \A a, b \in DOMAIN page.requests :
        page.requests[a].root # page.requests[b].root
            => page.requests[a].request.session_id
                   # page.requests[b].request.session_id

(***************************************************************************)
(* C20.  No request is aborted once issued: a sendMessage at its await     *)
(* keeps its request and stays at its await through every step of another  *)
(* invocation, the invoking and the settling of clearConversation and      *)
(* endConversation among them, and leaves the await only in the step in    *)
(* which it settles, which appends its reply to the sequence as that step  *)
(* finds it, emptied or not.                                               *)
(***************************************************************************)
C20_Step ==
    \A i \in Awaiting(calls, {"sendMessage"}) :
        /\ calls'[i].requests = calls[i].requests
        /\ \/ calls'[i].pc = "await"
           \/ /\ calls'[i].pc = "done"
              /\ Len(messages') = Len(messages) + 1
              /\ SubSeq(messages', 1, Len(messages)) = messages
              /\ messages'[Len(messages')].type = "ai"
              /\ messages'[Len(messages')].call = i
              /\ messages'[Len(messages')].content = calls'[i].reply
        /\ \A j \in DOMAIN calls' :
              /\ calls'[j].kind \in {"clearConversation", "endConversation"}
              /\ Invoked(j) \/ Settled(j)
              => calls'[i].pc = "await"

C20_InFlightSendIsNotAborted == [][C20_Step]_vars

\* a clear and an end were invoked after a send and have settled, the clear
\* while the send was in flight: the reply of the send is the whole sequence
C20_Witness ==
    /\ Len(calls) = 3
    /\ calls[1].kind = "sendMessage"
    /\ calls[1].pc = "done"
    /\ calls[1].wiped
    /\ \E j, k \in 2..3 :
          /\ calls[j].kind = "clearConversation"
          /\ calls[j].pc = "done"
          /\ calls[k].kind = "endConversation"
          /\ calls[k].pc = "done"
    /\ Len(messages) = 1
    /\ messages[1].type = "ai"
    /\ messages[1].call = 1

(***************************************************************************)
(* C21.  Overlapping sendMessage invocations are neither deduplicated nor  *)
(* queued.  As long as no clearConversation and no startConversation was   *)
(* invoked, every invocation with non-blank content has issued its one     *)
(* request, whatever else was in flight when it was invoked; the sequence  *)
(* holds one user message for each of them and one assistant message for   *)
(* each that settled, so k user and k assistant messages once all k have   *)
(* settled, in whatever order they settled.                                *)
(***************************************************************************)
OnlySendsAndEnds(cs) ==
    \A i \in DOMAIN cs :
        cs[i].kind \notin {"clearConversation", "startConversation"}

C21_OverlappingSendsAllCount ==
    OnlySendsAndEnds(calls) =>
        /\ \A i \in NonBlankSends(calls) :
              /\ calls[i].pc \in {"await", "done"}
              /\ Len(calls[i].requests) = 1
              /\ Cardinality(Built(messages, i, "user")) = 1
              /\ Cardinality(Built(messages, i, "ai"))
                    = IF calls[i].pc = "done" THEN 1 ELSE 0
        /\ Len(messages)
              = Cardinality(NonBlankSends(calls))
                  + Cardinality({i \in NonBlankSends(calls) :
                                    calls[i].pc = "done"})

\* three sends overlapped and all settled, the last invoked first: the
\* sequence holds three user messages and three assistant messages
C21_Witness ==
    /\ Len(calls) = 3
    /\ NonBlankSends(calls) = 1..3
    /\ \A i \in 1..3 : calls[i].pc = "done"
    /\ Len(messages) = 6
    /\ \A j \in 1..3 : messages[j].type = "user"
    /\ messages[4].call = 3
    /\ messages[6].call = 1
    /\ Cardinality({j \in 1..6 : messages[j].type = "ai"}) = 3

(***************************************************************************)
(* C22.  clearConversation empties the sequence only once its remote call  *)
(* has settled.  The step that invokes it leaves the sequence as it is;    *)
(* while it is in flight a step takes nothing from the sequence unless it  *)
(* settles another clearConversation or a startConversation; and the step  *)
(* in which it settles leaves the sequence empty, the messages appended    *)
(* after its invocation removed with the older ones.                       *)
(***************************************************************************)
C22_Step ==
    \A i \in DOMAIN calls' :
        calls'[i].kind = "clearConversation" =>
            /\ Invoked(i) =>
                  /\ messages' = messages
                  /\ calls'[i].pc = "await"
            /\ i \in DOMAIN calls /\ calls'[i].pc = "await" =>
                  \/ messages' = messages
                  \/ AppendsOne(messages, messages')
                  \/ \E j \in DOMAIN calls \ {i} :
                        /\ Settled(j)
                        /\ calls[j].kind \in {"clearConversation",
                                               "startConversation"}
            /\ Settled(i) =>
                  /\ messages' = <<>>
                  /\ \A k \in NonBlankSends(calls') :
                        calls[k].pc = "await" => calls'[k].wiped

C22_ClearEmptiesOnlyOnSettling == [][C22_Step]_vars

\* a clear invoked after a settled send, and settled after a later send was
\* invoked: the messages of both sends are gone
C22_Witness ==
    /\ Len(calls) = 3
    /\ calls[1].kind = "sendMessage"
    /\ calls[1].pc = "done"
    /\ calls[2].kind = "clearConversation"
    /\ calls[2].pc = "done"
    /\ 3 \in NonBlankSends(calls)
    /\ calls[3].pc = "await"
    /\ calls[3].wiped
    /\ messages = <<>>

(***************************************************************************)
(* C23.  Message ids strictly increase with the position in the sequence,  *)
(* so that no two messages of the sequence share an id.                    *)
(***************************************************************************)
C23_IdsStrictlyIncrease ==
    \A i, j \in DOMAIN messages :
        i < j => messages[i].id < messages[j].id

(***************************************************************************)
(* C24.  The context of a payload holds every field of the context the     *)
(* Widget supplied to the call, with its value unchanged.                  *)
(***************************************************************************)
C24_SnapshotPassedThroughUnmodified ==
    \A k \in DOMAIN widget.payloads :
        LET sent == widget.payloads[k]
        IN  \A f \in DOMAIN sent.supplied :
                /\ f \in DOMAIN sent.context
                /\ sent.context[f] = sent.supplied[f]

(***************************************************************************)
(* C24, amended.  sendMessage and startConversation build the context of   *)
(* the payload anew.  Of the supplied context only pageType reaches it,    *)
(* "general" standing in when the context is null, together with the       *)
(* supplied errors; url and user agent are those of the window at the time *)
(* of the call and timestamp is the time of the call; title, pathname and  *)
(* searchParams do not reach it.                                           *)
(***************************************************************************)
C24_OnlyPageTypeAndErrorsPassThrough ==
    \A k \in DOMAIN widget.payloads :
        LET sent == widget.payloads[k]
        IN  /\ DOMAIN sent.context
                  = {"pageType", "errors", "url", "userAgent", "timestamp",
                     "user_agent"}
            /\ sent.context.pageType
                  = IF sent.supplied = NoFields
                    THEN "general" ELSE sent.supplied.pageType
            /\ sent.context.errors = sent.errors
            /\ sent.context.url = sent.location.href
            /\ sent.context.userAgent = USER_AGENT
            /\ sent.context.user_agent = USER_AGENT
            /\ sent.context.timestamp = toISOString(sent.at)

\* a start built its payload from a detected context after the page had
\* navigated and the clock had run: the payload has the page type and the
\* errors of the context, another url and another timestamp, and no title
C24_Witness ==
    \E k \in DOMAIN widget.payloads :
        LET sent == widget.payloads[k]
        IN  /\ sent.path = "/conversation/start"
            /\ "title" \in DOMAIN sent.supplied
            /\ "title" \notin DOMAIN sent.context
            /\ sent.supplied.pageType = "payment"
            /\ sent.context.pageType = "payment"
            /\ sent.errors # <<>>
            /\ sent.context.errors = sent.errors
            /\ sent.context.url # sent.supplied.url
            /\ sent.context.timestamp # sent.supplied.timestamp

(***************************************************************************)
(* C25.  In the widget the conversation view is never left with an empty   *)
(* sequence and nothing loading: the effect invokes startConversation in   *)
(* the step that would leave it so.  In particular the step in which a     *)
(* clearConversation settles in the conversation view while isLoading is   *)
(* false invokes startConversation; and once a clear has left the          *)
(* conversation view empty with no send in flight, the sequence comes to   *)
(* hold a single welcome message of a startConversation.                   *)
(***************************************************************************)
C25_Step ==
    \A i \in DOMAIN calls :
        /\ Settled(i)
        /\ calls[i].kind = "clearConversation"
        /\ currentView = "conversation"
        /\ ~isLoading
        => /\ messages' = <<>>
           /\ isLoading'
           /\ \E j \in DOMAIN calls' :
                 /\ Invoked(j)
                 /\ calls'[j].kind = "startConversation"
                 /\ calls'[j].pc = "await"

C25_Cleared ==
    /\ currentView = "conversation"
    /\ messages = <<>>
    /\ \E i \in DOMAIN calls :
          calls[i].kind = "clearConversation" /\ calls[i].pc = "done"
    /\ Awaiting(calls, {"sendMessage"}) = {}

C25_Welcomed ==
    /\ Len(messages) = 1
    /\ messages[1].type = "ai"
    /\ calls[messages[1].call].kind = "startConversation"

C25_EmptyConversationIsRestarted ==
    /\ [](~(currentView = "conversation" /\ messages = <<>> /\ ~isLoading))
    /\ [][C25_Step]_vars
    /\ (C25_Cleared ~> C25_Welcomed)

\* the greeting of the first start was cleared away, and the start that
\* followed the clear has settled and left its own greeting
C25_Witness ==
    /\ Len(calls) = 3
    /\ calls[1].kind = "startConversation"
    /\ calls[2].kind = "clearConversation"
    /\ calls[3].kind = "startConversation"
    /\ \A i \in 1..3 : calls[i].pc = "done"
    /\ currentView = "conversation"
    /\ Len(messages) = 1
    /\ messages[1].call = 3

(***************************************************************************)
(* C26.  A step changes the message sequence in one of three ways only:    *)
(* it appends one message, built by the sendMessage the step invokes or    *)
(* settles; it leaves it empty, settling a clearConversation; or it leaves *)
(* it holding one assistant message, built by the startConversation the    *)
(* step settles.  Every other step leaves the sequence as it is: no        *)
(* message of the sequence is edited, moved or removed alone.              *)
(***************************************************************************)
C26_Step ==
    \/ messages' = messages
    \/ /\ AppendsOne(messages, messages')
       /\ \E i \in DOMAIN calls' :
             /\ calls'[i].kind = "sendMessage"
             /\ Invoked(i) \/ Settled(i)
             /\ messages'[Len(messages')].call = i
    \/ /\ messages' = <<>>
       /\ \E i \in DOMAIN calls :
             Settled(i) /\ calls[i].kind = "clearConversation"
    \/ /\ Len(messages') = 1
       /\ messages'[1].type = "ai"
       /\ \E i \in DOMAIN calls :
             /\ Settled(i)
             /\ calls[i].kind = "startConversation"
             /\ messages'[1].call = i

C26_ThreeWaysToChangeTheSequence == [][C26_Step]_vars

\* a send has appended its reply to a sequence of two messages: all three
\* are there, in the order in which they were appended
C26_Witness ==
    /\ Len(messages) = 3
    /\ messages[1].type = "ai"
    /\ calls[messages[1].call].kind = "startConversation"
    /\ messages[2].type = "user"
    /\ messages[3].type = "ai"
    /\ messages[3].call = messages[2].call
    /\ calls[messages[3].call].pc = "done"

(***************************************************************************)
(* C27.  conversationMode is monotone: false at mount, it becomes true     *)
(* only in the step in which a startConversation settles, and no step      *)
(* makes it false again.                                                   *)
(***************************************************************************)
C27_Step ==
    /\ conversationMode => conversationMode'
    /\ ~conversationMode /\ conversationMode' =>
          \E i \in DOMAIN calls :
              Settled(i) /\ calls[i].kind = "startConversation"
    /\ \A i \in DOMAIN calls :
          Settled(i) /\ calls[i].kind = "startConversation"
              => conversationMode'

C27_ConversationModeIsMonotone ==
    (conversationMode = FALSE) /\ [][C27_Step]_vars

\* conversation mode is on after a start, a clear and an end have settled,
\* in that order of invocation
C27_Witness ==
    /\ conversationMode
    /\ Len(calls) = 3
    /\ calls[1].kind = "startConversation"
    /\ calls[2].kind = "clearConversation"
    /\ calls[3].kind = "endConversation"
    /\ \A i \in 1..3 : calls[i].pc = "done"
    /\ messages = <<>>

(***************************************************************************)
(* C28.  Every assistant message of the sequence has a content that is not *)
(* empty, and so has the reply of every settled sendMessage and            *)
(* startConversation: a response, message or welcome_message field that is *)
(* empty counts as absent.                                                 *)
(***************************************************************************)
C28_AssistantContentIsNeverEmpty ==
    /\ \A j \in DOMAIN messages :
          messages[j].type = "ai" => messages[j].content # <<>>
    /\ \A i \in DOMAIN calls :
          /\ calls[i].kind \in {"sendMessage", "startConversation"}
          /\ calls[i].pc = "done"
          => calls[i].reply # <<>>

\* the fetch of a send came to a body whose response and message are both
\* empty: the reply at the end of the sequence is the fixed text
C28_Witness ==
    /\ fetched.call \in NonBlankSends(calls)
    /\ ~throws(fetched.outcome)
    /\ "response" \in DOMAIN fetched.outcome.data
    /\ fetched.outcome.data.response = <<>>
    /\ messages # <<>>
    /\ messages[Len(messages)].call = fetched.call
    /\ messages[Len(messages)].type = "ai"
    /\ messages[Len(messages)].content = COULD_NOT_PROCESS

(***************************************************************************)
(* C29.  The error handlers make at most one root, whatever the number of  *)
(* errors and rejections.  A call of showWidgetOnError that finds no       *)
(* element vault-widget-container adds that element and one root on it; a  *)
(* call that finds one, made by an earlier call or provided by the host    *)
(* page, adds no element and no root.  Either call leaves the container    *)
(* displayed and the feedback button, if there is one, hidden, and touches *)
(* nothing else of the document.                                           *)
(***************************************************************************)
ErrorRoots(p) == {r \in DOMAIN p.roots : p.roots[r].errorTriggered}

C29_Step ==
    LET containerId == "vault-widget-container"
    IN  page'.handled # page.handled =>
            /\ IF containerId \in DOMAIN page.elements
               THEN /\ page'.roots = page.roots
                    /\ DOMAIN page'.elements = DOMAIN page.elements
               ELSE /\ page'.roots
                          = Append(page.roots, Root(containerId, TRUE))
                    /\ DOMAIN page'.elements
                          = DOMAIN page.elements \cup {containerId}
            /\ page'.elements[containerId] = "block"
            /\ \A e \in DOMAIN page.elements \ {containerId} :
                  page'.elements[e]
                      = IF e = "feedback-button"
                        THEN "none" ELSE page.elements[e]
            /\ page'.renders = page.renders
            /\ page'.requests = page.requests

C29_ErrorHandlersMakeOneRoot ==
    /\ [](Cardinality(ErrorRoots(page)) <= 1)
    /\ [][C29_Step]_vars

\* more than one error was handled on a page that had a feedback button
\* and no container: one root of the handlers, the container displayed,
\* the button hidden
C29_Witness ==
    /\ page.handled = "more"
    /\ Cardinality(ErrorRoots(page)) = 1
    /\ page.elements["vault-widget-container"] = "block"
    /\ "feedback-button" \in DOMAIN page.elements
    /\ page.elements["feedback-button"] = "none"

=============================================================================
